---------------------------- MODULE Spec2Model ----------------------------
(***************************************************************************)
(* Model of the background task manager (core/task_manager.py) and of the  *)
(* channel gateway (channels/gateway.py).                                  *)
(*                                                                         *)
(* Every coroutine is a process whose pc names the await it is suspended   *)
(* at.  An action resumes the coroutine from that await, applies the       *)
(* awaited store operation and runs the synchronous code up to the next    *)
(* await.  asyncio.Queue.put on an unbounded queue and _emit_event never   *)
(* suspend, so they are part of the step that calls them.                  *)
(***************************************************************************)
EXTENDS Integers, Sequences, FiniteSets, TLC

(***************************************************************************)
(* Bounds                                                                  *)
(***************************************************************************)
MaxEvents == 4
MaxMsgs == 1
MaxCancels == 1
MaxOps == 2
MaxLifeInbound == 1
MaxInbound == 2
MaxStream == 3
MaxLimit == 3
MaxCalls == 5
MaxNow == 120
MaxAccessCalls == 2
MaxStatusCalls == 1
MaxNoticeInbound == 2
MaxReplyStream == 3
MaxUnitEvents == 3

(***************************************************************************)
(* Program constants                                                       *)
(***************************************************************************)
max_buffer_size == 100

Tasks == {"t1"}
T == "t1"
\* one subscription; subscriptions share only the list subscribers[task_id]
Subs == {"s1"}
None == "None"
EngineEventTypes == {"session_start", "assistant", "ask_user_question", "result", "error"}

VARIABLES
    db_tasks,        \* persisted task rows: task_id -> [status, session_id, error]
    running_tasks,   \* TaskManager._running_tasks (set of task ids with a live unit)
    event_buffers,   \* TaskManager._event_buffers: task_id -> sequence of events
    subscribers,     \* TaskManager._subscribers: task_id -> sequence of queue ids
    message_queues,  \* TaskManager._message_queues: task_id -> sequence of inputs
    queues,          \* contents of each subscriber's asyncio.Queue
    run_pc,          \* await at which the execution unit (_run_task) is suspended
    run_cancel,      \* asyncio Task.cancel() was called and not yet delivered
    run_sid,         \* local session_id of _run_task
    run_event,       \* engine event held across the await of line 153
    run_needs,       \* needs_another_interaction
    run_inputs,      \* inputs the pause loop handed to the engine, with the resume token
    emitted,         \* history: every event passed to _emit_event, in order
    sub_pc,          \* position of each subscribe() generator
    sub_snap,        \* buffered_events snapshot of each subscription
    sub_recv,        \* history: events yielded to each consumer
    send_pc,         \* position of the send_message caller
    send_result,     \* last return value of send_message
    send_count,      \* number of send_message calls that reached line 345
    cancel_calls,    \* number of cancel_task calls that found a live unit
    cancel_waiting,  \* number of cancel_task callers suspended at line 363
    del_pc           \* position of the delete_task caller

tmVars == <<db_tasks, running_tasks, event_buffers, subscribers, message_queues,
            queues, run_pc, run_cancel, run_sid, run_event, run_needs, run_inputs,
            emitted, sub_pc, sub_snap, sub_recv,
            send_pc, send_result, send_count, cancel_calls, cancel_waiting,
            del_pc>>

VARIABLES
    db_channels,          \* persisted channel rows: channel_id -> record
    db_channel_sessions,  \* persisted ChannelSession rows (a set of records)
    db_channel_messages,  \* persisted audit log, in insertion order
    adapters,             \* ChannelGateway._adapters: channel_id -> adapter instance
    tasks,                \* ChannelGateway._tasks: channel_id -> supervising unit
    channel_cache,        \* ChannelGateway._channel_cache: channel_id -> record
    windows,              \* _TokenBucketRateLimiter._windows: sender -> timestamps
    now,                  \* time.time(), in seconds
    inst_pc,              \* position of each _run_adapter unit, by instance number
    inst_stopped,         \* adapter.stop() was called on the instance
    caller,               \* start_channel / stop_channel / restart_channel callers
    handler,              \* handle_inbound_message coroutines
    sent,                 \* history: messages accepted by adapter.send_message
    uuid,                 \* number of uuid4() values drawn so far
    hist,                 \* history: returns of start_channel and stop_channel
    done_log,             \* history: finished exchanges
    rl_log,               \* history: results of is_allowed, in call order
    access_log,           \* history: results of _check_access, in call order
    status_call,          \* the get_channel_status coroutine
    bulk,                 \* the startup / shutdown coroutine and its channels
    stream_log,           \* history: engine events of the traced exchange
    cleanup               \* the chain of _schedule_buffer_cleanup units of the task

gwVars == <<db_channels, db_channel_sessions, db_channel_messages, adapters, tasks,
            channel_cache, windows, now, inst_pc, inst_stopped, caller, handler,
            sent, uuid, hist, done_log, rl_log, access_log, status_call, bulk,
            stream_log, cleanup>>

vars == <<tmVars, gwVars>>

(***************************************************************************)
(* Helpers                                                                 *)
(***************************************************************************)
Has(d, k) == k \in DOMAIN d

Put(d, k, v) == [x \in (DOMAIN d) \cup {k} |-> IF x = k THEN v ELSE d[x]]

Pop(d, k) == [x \in (DOMAIN d) \ {k} |-> d[x]]

Without(seq, x) == SelectSeq(seq, LAMBDA y : y # x)

NoEvent == [type |-> None, status |-> "", id |-> 0]

EngineEvent(ty) == [type |-> ty, status |-> "", id |-> Len(emitted) + 1]

StatusEvent(st) == [type |-> "status", status |-> st, id |-> Len(emitted) + 1]

ErrorEvent == [type |-> "error", status |-> "", id |-> Len(emitted) + 1]

\* subscribe lines 322-325: the events on which the live loop breaks
IsTerminal(e) ==
    \/ e.type = "status" /\ e.status \in {"completed", "failed", "cancelled"}
    \/ e.type \in {"result", "error"}

\* db.tasks.update: merges into the row, no effect when the row is missing
DbUpdateStatus(st) ==
    IF Has(db_tasks, T) THEN [db_tasks EXCEPT ![T].status = st] ELSE db_tasks

(***************************************************************************)
(* TaskManager._emit_event                                                 *)
(***************************************************************************)
\* mutant: evicts the newest event instead of the oldest (pop() for pop(0))
BufferAfterEmit_EvictNewest(e) ==
    IF Has(event_buffers, T)
    THEN LET b == Append(event_buffers[T], e)
         IN  [event_buffers EXCEPT ![T] =
                 IF Len(b) > max_buffer_size THEN SubSeq(b, 1, Len(b) - 1) ELSE b]
    ELSE event_buffers

BufferAfterEmit(e) ==
    IF Has(event_buffers, T)
    THEN LET b == Append(event_buffers[T], e)
         IN  [event_buffers EXCEPT ![T] =
                 IF Len(b) > max_buffer_size THEN Tail(b) ELSE b]
    ELSE event_buffers

\* mutant: the event is buffered but not put on the subscribers' queues
QueuesAfterEmit_NoPut(e) == queues

QueuesAfterEmit(e) ==
    IF Has(subscribers, T)
    THEN [q \in DOMAIN queues |->
            IF \E i \in 1..Len(subscribers[T]) : subscribers[T][i] = q
            THEN Append(queues[q], e) ELSE queues[q]]
    ELSE queues

emit_event(e) ==
    /\ event_buffers' = BufferAfterEmit(e)
    /\ queues' = QueuesAfterEmit(e)
    /\ emitted' = Append(emitted, e)

(***************************************************************************)
(* Initial state: TaskManager.__init__                                     *)
(***************************************************************************)
\* S: the subscriptions that will be made
TaskManagerInitWith(S) ==
    /\ db_tasks = << >>
    /\ running_tasks = {}
    /\ event_buffers = << >>
    /\ subscribers = << >>
    /\ message_queues = << >>
    /\ queues = [q \in S |-> << >>]
    /\ run_pc = "none"
    /\ run_cancel = FALSE
    /\ run_sid = None
    /\ run_event = NoEvent
    /\ run_needs = FALSE
    /\ run_inputs = << >>
    /\ emitted = << >>
    /\ sub_pc = [s \in S |-> "idle"]
    /\ sub_snap = [s \in S |-> << >>]
    /\ sub_recv = [s \in S |-> << >>]
    /\ send_pc = "idle"
    /\ send_result = None
    /\ send_count = 0
    /\ cancel_calls = 0
    /\ cancel_waiting = 0
    /\ del_pc = "idle"

TaskManagerInit == TaskManagerInitWith(Subs)

subVars == <<sub_pc, sub_snap, sub_recv>>
sendVars == <<send_pc, send_result, send_count>>
cancelVars == <<cancel_calls, cancel_waiting, del_pc>>
runLocals == <<run_sid, run_event, run_needs, run_inputs>>

(***************************************************************************)
(* TaskManager.create_task                                                 *)
(***************************************************************************)
create_task ==
    /\ run_pc = "none"
    /\ ~Has(db_tasks, T)
    /\ db_tasks' = Put(db_tasks, T, [status |-> "pending", session_id |-> None, error |-> None])
    /\ event_buffers' = Put(event_buffers, T, << >>)
    /\ subscribers' = Put(subscribers, T, << >>)
    /\ message_queues' = Put(message_queues, T, << >>)
    /\ running_tasks' = running_tasks \cup {T}
    /\ run_pc' = "start"
    /\ UNCHANGED <<queues, run_cancel, runLocals, emitted, subVars, sendVars, cancelVars>>
    /\ UNCHANGED gwVars

(***************************************************************************)
(* TaskManager._run_task                                                   *)
(***************************************************************************)
\* finally block, lines 196-200
run_finally == running_tasks' = running_tasks \ {T}

\* the asyncio task takes its first step and suspends at line 133
run_task_begin ==
    /\ run_pc = "start"
    /\ ~run_cancel
    /\ run_pc' = "await_running"
    /\ UNCHANGED <<db_tasks, running_tasks, event_buffers, subscribers, message_queues,
                   queues, run_cancel, runLocals, emitted, subVars, sendVars, cancelVars>>
    /\ UNCHANGED gwVars

\* lines 133-141: status running persisted, status event emitted, engine called
run_task_running ==
    /\ run_pc = "await_running"
    /\ ~run_cancel
    /\ db_tasks' = DbUpdateStatus("running")
    /\ emit_event(StatusEvent("running"))
    /\ run_sid' = None
    /\ run_pc' = "await_engine"
    /\ UNCHANGED <<running_tasks, subscribers, message_queues, run_cancel,
                   run_event, run_needs, run_inputs, subVars, sendVars, cancelVars>>
    /\ UNCHANGED gwVars

\* lines 141-179: one event of the initial engine stream
run_task_event(ty) ==
    /\ run_pc = "await_engine"
    /\ ~run_cancel
    /\ IF ty = "session_start"
       THEN \* lines 151-153: capture the id, suspend on db.tasks.update
            /\ run_sid' = "sdk"
            /\ run_event' = EngineEvent(ty)
            /\ run_pc' = "await_session_id"
            /\ UNCHANGED <<event_buffers, queues, emitted, running_tasks>>
       ELSE /\ emit_event(EngineEvent(ty))
            /\ UNCHANGED <<run_sid, run_event>>
            /\ IF ty = "error" THEN run_pc' = "await_failed" /\ UNCHANGED running_tasks
               ELSE IF ty = "result" THEN run_pc' = "await_completed" /\ UNCHANGED running_tasks
               ELSE IF ty = "ask_user_question"
                    THEN \* _handle_pending_interaction lines 214-221
                         IF Has(message_queues, T)
                         THEN run_pc' = "await_message" /\ UNCHANGED running_tasks
                         ELSE run_pc' = "done" /\ run_finally
               ELSE run_pc' = "await_engine" /\ UNCHANGED running_tasks
    /\ UNCHANGED <<db_tasks, subscribers, message_queues, run_cancel, run_needs,
                   run_inputs, subVars, sendVars, cancelVars>>
    /\ UNCHANGED gwVars

\* lines 153-156: session id persisted, then the session_start event emitted
run_task_session_id ==
    /\ run_pc = "await_session_id"
    /\ ~run_cancel
    /\ db_tasks' = IF Has(db_tasks, T) THEN [db_tasks EXCEPT ![T].session_id = run_sid]
                   ELSE db_tasks
    /\ emit_event(run_event)
    /\ run_event' = NoEvent
    /\ run_pc' = "await_engine"
    /\ UNCHANGED <<running_tasks, subscribers, message_queues, run_cancel, run_sid,
                   run_needs, run_inputs, subVars, sendVars, cancelVars>>
    /\ UNCHANGED gwVars

\* mutant: an error event ends the unit with status completed
run_task_failed_MarksCompleted ==
    /\ run_pc = "await_failed"
    /\ ~run_cancel
    /\ db_tasks' = DbUpdateStatus("completed")
    /\ run_pc' = "done"
    /\ run_finally
    /\ UNCHANGED <<event_buffers, subscribers, message_queues, queues, run_cancel,
                   runLocals, emitted, subVars, sendVars, cancelVars>>
    /\ UNCHANGED gwVars

\* lines 160-165: error event seen, status failed persisted
run_task_failed ==
    /\ run_pc = "await_failed"
    /\ ~run_cancel
    /\ db_tasks' = IF Has(db_tasks, T)
                   THEN [db_tasks EXCEPT ![T].status = "failed", ![T].error = "event"]
                   ELSE db_tasks
    /\ run_pc' = "done"
    /\ run_finally
    /\ UNCHANGED <<event_buffers, subscribers, message_queues, queues, run_cancel,
                   runLocals, emitted, subVars, sendVars, cancelVars>>
    /\ UNCHANGED gwVars

\* lines 169-173: result event seen, status completed persisted
run_task_completed ==
    /\ run_pc = "await_completed"
    /\ ~run_cancel
    /\ db_tasks' = DbUpdateStatus("completed")
    /\ run_pc' = "done"
    /\ run_finally
    /\ UNCHANGED <<event_buffers, subscribers, message_queues, queues, run_cancel,
                   runLocals, emitted, subVars, sendVars, cancelVars>>
    /\ UNCHANGED gwVars

\* the initial engine stream ends without result, error or question
run_task_stream_end ==
    /\ run_pc = "await_engine"
    /\ ~run_cancel
    /\ run_pc' = "done"
    /\ run_finally
    /\ UNCHANGED <<db_tasks, event_buffers, subscribers, message_queues, queues,
                   run_cancel, runLocals, emitted, subVars, sendVars, cancelVars>>
    /\ UNCHANGED gwVars

\* the engine raises (initial or resumed stream): except Exception, line 188
run_task_raise ==
    /\ run_pc \in {"await_engine", "await_resumed"}
    /\ ~run_cancel
    /\ run_pc' = "await_exc_failed"
    /\ UNCHANGED <<db_tasks, running_tasks, event_buffers, subscribers, message_queues,
                   queues, run_cancel, runLocals, emitted, subVars, sendVars, cancelVars>>
    /\ UNCHANGED gwVars

\* lines 190-195 and finally
run_task_exc_failed ==
    /\ run_pc = "await_exc_failed"
    /\ ~run_cancel
    /\ db_tasks' = IF Has(db_tasks, T)
                   THEN [db_tasks EXCEPT ![T].status = "failed", ![T].error = "exception"]
                   ELSE db_tasks
    /\ emit_event(ErrorEvent)
    /\ run_pc' = "done"
    /\ run_finally
    /\ UNCHANGED <<subscribers, message_queues, run_cancel, runLocals,
                   subVars, sendVars, cancelVars>>
    /\ UNCHANGED gwVars

\* delivery of CancelledError at the await the unit is suspended at
run_task_cancelled ==
    /\ run_cancel
    /\ run_cancel' = FALSE
    /\ IF run_pc = "start"
       THEN \* never started: the coroutine body, and its finally, never run
            run_pc' = "done" /\ UNCHANGED running_tasks
       ELSE IF run_pc \in {"await_cancelled", "await_exc_failed"}
       THEN \* raised inside an except handler: only the finally block runs
            run_pc' = "done" /\ run_finally
       ELSE /\ run_pc \notin {"none", "done"}
            /\ run_pc' = "await_cancelled"
            /\ UNCHANGED running_tasks
    /\ UNCHANGED <<db_tasks, event_buffers, subscribers, message_queues, queues,
                   runLocals, emitted, subVars, sendVars, cancelVars>>
    /\ UNCHANGED gwVars

\* mutant: the status event is emitted while the stored status is unchanged
run_task_mark_cancelled_EmitsFirst ==
    /\ run_pc = "await_cancelled"
    /\ ~run_cancel
    /\ emit_event(StatusEvent("cancelled"))
    /\ run_pc' = "done"
    /\ run_finally
    /\ UNCHANGED <<db_tasks, subscribers, message_queues, run_cancel, runLocals,
                   subVars, sendVars, cancelVars>>
    /\ UNCHANGED gwVars

\* lines 183-187 and finally
run_task_mark_cancelled ==
    /\ run_pc = "await_cancelled"
    /\ ~run_cancel
    /\ db_tasks' = DbUpdateStatus("cancelled")
    /\ emit_event(StatusEvent("cancelled"))
    /\ run_pc' = "done"
    /\ run_finally
    /\ UNCHANGED <<subscribers, message_queues, run_cancel, runLocals,
                   subVars, sendVars, cancelVars>>
    /\ UNCHANGED gwVars

(***************************************************************************)
(* TaskManager._handle_pending_interaction                                 *)
(***************************************************************************)
\* line 221: message_queue.get() returns, then suspend on db.tasks.get
pending_get_message ==
    /\ run_pc = "await_message"
    /\ ~run_cancel
    /\ Has(message_queues, T)
    /\ message_queues[T] # << >>
    /\ run_inputs' = Append(run_inputs, [msg |-> Head(message_queues[T]), session_id |-> run_sid])
    /\ message_queues' = [message_queues EXCEPT ![T] = Tail(@)]
    /\ run_pc' = "await_task_get"
    /\ UNCHANGED <<db_tasks, running_tasks, event_buffers, subscribers, queues,
                   run_cancel, run_sid, run_event, run_needs, emitted,
                   subVars, sendVars, cancelVars>>
    /\ UNCHANGED gwVars

\* lines 224-230: task row read, engine re-invoked with the captured session id
pending_resume ==
    /\ run_pc = "await_task_get"
    /\ ~run_cancel
    /\ IF Has(db_tasks, T)
       THEN /\ run_needs' = FALSE
            /\ run_pc' = "await_resumed"
            /\ UNCHANGED running_tasks
       ELSE /\ run_pc' = "done"
            /\ run_finally
            /\ UNCHANGED run_needs
    /\ UNCHANGED <<db_tasks, event_buffers, subscribers, message_queues, queues,
                   run_cancel, run_sid, run_event, run_inputs, emitted,
                   subVars, sendVars, cancelVars>>
    /\ UNCHANGED gwVars

\* lines 230-258: one event of a resumed engine stream
pending_event(ty) ==
    /\ run_pc = "await_resumed"
    /\ ~run_cancel
    /\ emit_event(EngineEvent(ty))
    /\ IF ty = "error" THEN run_pc' = "await_failed_resumed" /\ UNCHANGED run_needs
       ELSE IF ty = "result" THEN run_pc' = "await_completed_resumed" /\ UNCHANGED run_needs
       ELSE IF ty = "ask_user_question" THEN run_pc' = "await_resumed" /\ run_needs' = TRUE
       ELSE UNCHANGED <<run_pc, run_needs>>
    /\ UNCHANGED <<db_tasks, running_tasks, subscribers, message_queues, run_cancel,
                   run_sid, run_event, run_inputs, subVars, sendVars, cancelVars>>
    /\ UNCHANGED gwVars

\* lines 242-247
pending_failed ==
    /\ run_pc = "await_failed_resumed"
    /\ ~run_cancel
    /\ db_tasks' = IF Has(db_tasks, T)
                   THEN [db_tasks EXCEPT ![T].status = "failed", ![T].error = "event"]
                   ELSE db_tasks
    /\ run_pc' = "done"
    /\ run_finally
    /\ UNCHANGED <<event_buffers, subscribers, message_queues, queues, run_cancel,
                   runLocals, emitted, subVars, sendVars, cancelVars>>
    /\ UNCHANGED gwVars

\* lines 250-254
pending_completed ==
    /\ run_pc = "await_completed_resumed"
    /\ ~run_cancel
    /\ db_tasks' = DbUpdateStatus("completed")
    /\ run_pc' = "done"
    /\ run_finally
    /\ UNCHANGED <<event_buffers, subscribers, message_queues, queues, run_cancel,
                   runLocals, emitted, subVars, sendVars, cancelVars>>
    /\ UNCHANGED gwVars

\* lines 260-262: the resumed stream ends
pending_stream_end ==
    /\ run_pc = "await_resumed"
    /\ ~run_cancel
    /\ IF run_needs
       THEN run_pc' = "await_message" /\ UNCHANGED running_tasks
       ELSE run_pc' = "done" /\ run_finally
    /\ UNCHANGED <<db_tasks, event_buffers, subscribers, message_queues, queues,
                   run_cancel, runLocals, emitted, subVars, sendVars, cancelVars>>
    /\ UNCHANGED gwVars

(***************************************************************************)
(* TaskManager.subscribe (an async generator; each yield is a suspension)  *)
(***************************************************************************)
InSeq(seq, x) == \E i \in 1..Len(seq) : seq[i] = x

\* finally block, lines 327-330; list.remove raises ValueError when absent
subscribe_exit(s) ==
    IF Has(subscribers, T)
    THEN IF InSeq(subscribers[T], s)
         THEN /\ subscribers' = [subscribers EXCEPT ![T] = Without(@, s)]
              /\ sub_pc' = [sub_pc EXCEPT ![s] = "ended"]
         ELSE /\ UNCHANGED subscribers
              /\ sub_pc' = [sub_pc EXCEPT ![s] = "raised"]
    ELSE /\ UNCHANGED subscribers
         /\ sub_pc' = [sub_pc EXCEPT ![s] = "ended"]

\* lines 317-319: queue.get() returns at once when an item is queued
subscribe_live(s) ==
    IF queues[s] # << >>
    THEN /\ sub_recv' = [sub_recv EXCEPT ![s] = Append(@, Head(queues[s]))]
         /\ queues' = [queues EXCEPT ![s] = Tail(@)]
         /\ sub_pc' = [sub_pc EXCEPT ![s] = "live"]
    ELSE /\ sub_pc' = [sub_pc EXCEPT ![s] = "wait"]
         /\ UNCHANGED <<sub_recv, queues>>

\* lines 302-314: first resumption of the generator: register the queue,
\* snapshot the buffer, yield the first buffered event or wait on the queue
subscribe(s) ==
    /\ sub_pc[s] = "idle"
    /\ run_pc # "none"
    /\ subscribers' = Put(subscribers, T,
                          Append(IF Has(subscribers, T) THEN subscribers[T] ELSE << >>, s))
    /\ LET snap == IF Has(event_buffers, T) THEN event_buffers[T] ELSE << >>
       IN  /\ sub_snap' = [sub_snap EXCEPT ![s] = snap]
           /\ IF snap # << >>
              THEN /\ sub_recv' = [sub_recv EXCEPT ![s] = Append(@, snap[1])]
                   /\ sub_pc' = [sub_pc EXCEPT ![s] = "buffered"]
              ELSE /\ sub_pc' = [sub_pc EXCEPT ![s] = "wait"]
                   /\ UNCHANGED sub_recv
    /\ UNCHANGED <<db_tasks, running_tasks, event_buffers, message_queues, queues,
                   run_pc, run_cancel, runLocals, emitted, sendVars, cancelVars>>
    /\ UNCHANGED gwVars

\* lines 313-318: resumed after a yield of the buffered loop
subscribe_next_buffered(s) ==
    /\ sub_pc[s] = "buffered"
    /\ IF Len(sub_recv[s]) < Len(sub_snap[s])
       THEN /\ sub_recv' = [sub_recv EXCEPT ![s] = Append(@, sub_snap[s][Len(sub_recv[s]) + 1])]
            /\ UNCHANGED <<sub_pc, queues>>
       ELSE subscribe_live(s)
    /\ UNCHANGED <<db_tasks, running_tasks, event_buffers, subscribers, message_queues,
                   run_pc, run_cancel, runLocals, emitted, sub_snap,
                   sendVars, cancelVars>>
    /\ UNCHANGED gwVars

\* line 318: an event arrives while the generator waits on its queue
subscribe_queue_get(s) ==
    /\ sub_pc[s] = "wait"
    /\ queues[s] # << >>
    /\ subscribe_live(s)
    /\ UNCHANGED <<db_tasks, running_tasks, event_buffers, subscribers, message_queues,
                   run_pc, run_cancel, runLocals, emitted, sub_snap,
                   sendVars, cancelVars>>
    /\ UNCHANGED gwVars

\* lines 319-330: resumed after a yield of the live loop
subscribe_next_live(s) ==
    /\ sub_pc[s] = "live"
    /\ IF IsTerminal(sub_recv[s][Len(sub_recv[s])])
       THEN /\ subscribe_exit(s)
            /\ UNCHANGED <<sub_recv, queues>>
       ELSE /\ subscribe_live(s)
            /\ UNCHANGED subscribers
    /\ UNCHANGED <<db_tasks, running_tasks, event_buffers, message_queues,
                   run_pc, run_cancel, runLocals, emitted, sub_snap,
                   sendVars, cancelVars>>
    /\ UNCHANGED gwVars

(***************************************************************************)
(* TaskManager.send_message                                                *)
(***************************************************************************)
\* lines 342-345; a call for a task without message queue returns False
send_message_call ==
    /\ send_pc = "idle"
    /\ send_count < MaxMsgs
    /\ IF Has(message_queues, T)
       THEN /\ send_pc' = "await_task_get"
            /\ send_count' = send_count + 1
            /\ send_result' = None
       ELSE /\ send_result' = "False"
            /\ UNCHANGED <<send_pc, send_count>>
    /\ UNCHANGED <<db_tasks, running_tasks, event_buffers, subscribers, message_queues,
                   queues, run_pc, run_cancel, runLocals, emitted, subVars, cancelVars>>
    /\ UNCHANGED gwVars

\* mutant: the status of the task is not checked before enqueueing
send_message_resume_NoStatusCheck ==
    /\ send_pc = "await_task_get"
    /\ IF Has(message_queues, T)
       THEN /\ message_queues' = [message_queues EXCEPT ![T] = Append(@, send_count)]
            /\ send_result' = "True"
       ELSE /\ UNCHANGED message_queues
            /\ send_result' = "KeyError"
    /\ send_pc' = "idle"
    /\ UNCHANGED <<db_tasks, running_tasks, event_buffers, subscribers,
                   queues, run_pc, run_cancel, runLocals, emitted, subVars,
                   send_count, cancelVars>>
    /\ UNCHANGED gwVars

\* lines 345-353
send_message_resume ==
    /\ send_pc = "await_task_get"
    /\ IF Has(db_tasks, T) /\ db_tasks[T].status = "running"
       THEN IF Has(message_queues, T)
            THEN /\ message_queues' = [message_queues EXCEPT ![T] = Append(@, send_count)]
                 /\ send_result' = "True"
            ELSE /\ UNCHANGED message_queues
                 /\ send_result' = "KeyError"
       ELSE /\ UNCHANGED message_queues
            /\ send_result' = "False"
    /\ send_pc' = "idle"
    /\ UNCHANGED <<db_tasks, running_tasks, event_buffers, subscribers,
                   queues, run_pc, run_cancel, runLocals, emitted, subVars,
                   send_count, cancelVars>>
    /\ UNCHANGED gwVars

(***************************************************************************)
(* TaskManager.cancel_task                                                 *)
(***************************************************************************)
\* lines 357-363: Task.cancel() and suspension on the unit; a call that
\* finds no unit returns False and changes nothing
cancel_task_call ==
    /\ cancel_calls < MaxCancels
    /\ IF T \in running_tasks
       THEN /\ run_cancel' = (run_cancel \/ run_pc # "done")
            /\ cancel_calls' = cancel_calls + 1
            /\ cancel_waiting' = cancel_waiting + 1
       ELSE UNCHANGED <<run_cancel, cancel_calls, cancel_waiting>>
    /\ UNCHANGED del_pc
    /\ UNCHANGED <<db_tasks, running_tasks, event_buffers, subscribers, message_queues,
                   queues, run_pc, runLocals, emitted, subVars, sendVars>>
    /\ UNCHANGED gwVars

\* lines 363-367: the awaited unit has finished, the caller returns True
cancel_task_return ==
    /\ cancel_waiting > 0
    /\ run_pc = "done"
    /\ cancel_waiting' = cancel_waiting - 1
    /\ UNCHANGED del_pc
    /\ UNCHANGED <<db_tasks, running_tasks, event_buffers, subscribers, message_queues,
                   queues, run_pc, run_cancel, runLocals, emitted, subVars, sendVars,
                   cancel_calls>>
    /\ UNCHANGED gwVars

(***************************************************************************)
(* TaskManager.delete_task                                                 *)
(***************************************************************************)
\* lines 388-390: the three pops
delete_cleanup ==
    /\ event_buffers' = Pop(event_buffers, T)
    /\ subscribers' = Pop(subscribers, T)
    /\ message_queues' = Pop(message_queues, T)

\* lines 384-392 with cancel_task lines 357-363 inlined: a task with a unit
\* is cancelled and the caller suspends on the unit; otherwise the in-memory
\* state is dropped and the caller suspends on db.tasks.delete.  The id is
\* one that create_task has returned (ids are minted at line 82).
delete_task_call ==
    /\ del_pc = "idle"
    /\ run_pc # "none"
    /\ IF T \in running_tasks
       THEN /\ run_cancel' = (run_cancel \/ run_pc # "done")
            /\ del_pc' = "await_unit"
            /\ UNCHANGED <<event_buffers, subscribers, message_queues>>
       ELSE /\ delete_cleanup
            /\ del_pc' = "await_delete"
            /\ UNCHANGED run_cancel
    /\ UNCHANGED <<db_tasks, running_tasks, queues, run_pc, runLocals, emitted,
                   subVars, sendVars, cancel_calls, cancel_waiting>>
    /\ UNCHANGED gwVars

\* lines 363-392: the awaited unit has finished; cancel_task returns and the
\* in-memory state is dropped
delete_task_unit_done ==
    /\ del_pc = "await_unit"
    /\ run_pc = "done"
    /\ delete_cleanup
    /\ del_pc' = "await_delete"
    /\ UNCHANGED <<db_tasks, running_tasks, queues, run_pc, run_cancel, runLocals,
                   emitted, subVars, sendVars, cancel_calls, cancel_waiting>>
    /\ UNCHANGED gwVars

\* line 392: the row is deleted and delete_task returns
delete_task_deleted ==
    /\ del_pc = "await_delete"
    /\ db_tasks' = Pop(db_tasks, T)
    /\ del_pc' = "returned"
    /\ UNCHANGED <<running_tasks, event_buffers, subscribers, message_queues, queues,
                   run_pc, run_cancel, runLocals, emitted, subVars, sendVars,
                   cancel_calls, cancel_waiting>>
    /\ UNCHANGED gwVars

(***************************************************************************)
(* Channel gateway (channels/gateway.py)                                   *)
(*                                                                         *)
(* One channel row is studied; several adapter instances may be created    *)
(* for it over time.  The persisted store is written at the moment the     *)
(* awaiting coroutine resumes, so two coroutines suspended on the store    *)
(* complete in either order.                                               *)
(***************************************************************************)
Ch == "c1"
Chat == "chatA"
Sender == "U1"
Callers == {"api1"}
Handlers == {"h1", "h2"}
H1 == "h1"

\* adapter classes present in channels/registry.py after load_adapters()
AdapterRegistry == {"feishu"}

NoId == << >>
Uuid(n) == <<"uuid", n>>
SdkId(n) == <<"sdk", n>>

ChannelRow(type, mode, allowed, blocked, limit) ==
    [status |-> "inactive", error_message |-> None, channel_type |-> type,
     access_mode |-> mode, allowed_senders |-> allowed, blocked_senders |-> blocked,
     rate_limit_per_minute |-> limit, agent_id |-> "agent"]

NoChannel == [ChannelRow("", "", {}, {}, 0) EXCEPT !.status = "none"]

\* reply texts of handle_inbound_message
RateLimitNotice == "You are sending messages too quickly. Please wait a moment and try again."
ResultErrorReply == "Sorry, the agent encountered an error: "
ErrorEventReply == "Sorry, I encountered an error processing your request."
ExceptionReply == "Sorry, an unexpected error occurred. Please try again later."
NoResponseReply == "(No response generated)"

(***************************************************************************)
(* _TokenBucketRateLimiter.is_allowed                                      *)
(***************************************************************************)
WindowSeconds == 60

\* self._windows is a defaultdict(list)
Window(sender_id) == IF Has(windows, sender_id) THEN windows[sender_id] ELSE << >>

\* line 55: window[:] = [ts for ts in window if ts > cutoff]
Evicted_KeepCutoff(sender_id, t) ==
    SelectSeq(Window(sender_id), LAMBDA ts : ts >= t - WindowSeconds)

Evicted(sender_id, t) ==
    SelectSeq(Window(sender_id), LAMBDA ts : ts > t - WindowSeconds)

\* the value returned by is_allowed at time t
is_allowed_NoLimit(sender_id, max_per_minute, t) == TRUE

is_allowed(sender_id, max_per_minute, t) ==
    IF max_per_minute <= 0 THEN TRUE
    ELSE Len(Evicted(sender_id, t)) < max_per_minute

\* mutant: a rejected call is appended to the window as well
WindowsAfter_CountRejected(sender_id, max_per_minute, t) ==
    IF max_per_minute <= 0 THEN windows
    ELSE Put(windows, sender_id, Append(Evicted(sender_id, t), t))

\* self._windows after is_allowed at time t
WindowsAfter(sender_id, max_per_minute, t) ==
    IF max_per_minute <= 0 THEN windows
    ELSE IF Len(Evicted(sender_id, t)) >= max_per_minute
         THEN Put(windows, sender_id, Evicted(sender_id, t))
         ELSE Put(windows, sender_id, Append(Evicted(sender_id, t), t))

(***************************************************************************)
(* ChannelGateway._check_access                                            *)
(***************************************************************************)
\* mutant: an unrecognised mode lets every sender in
check_access_OpenOnUnknown(channel_config, sender_id) ==
    IF channel_config.access_mode = "allowlist"
    THEN sender_id \in channel_config.allowed_senders
    ELSE IF channel_config.access_mode = "blocklist"
         THEN sender_id \notin channel_config.blocked_senders
    ELSE TRUE

check_access(channel_config, sender_id) ==
    IF channel_config.access_mode = "open" THEN TRUE
    ELSE IF channel_config.access_mode = "allowlist"
         THEN sender_id \in channel_config.allowed_senders
    ELSE IF channel_config.access_mode = "blocklist"
         THEN sender_id \notin channel_config.blocked_senders
    ELSE FALSE

(***************************************************************************)
(* Initial state: ChannelGateway.__init__, with one stored channel row     *)
(***************************************************************************)
IdleCaller == [pc |-> "idle", ret |-> "", adapter |-> {}, task |-> {}, channel |-> NoChannel]

\* no get_channel_status call is in progress
IdleStatusCall ==
    [pc |-> "idle", is_running |-> FALSE, status |-> "", active_sessions |-> 0,
     error_message |-> None, failed |-> {}, calls |-> 0]

\* no startup or shutdown call is in progress; no other channel is stored
NoBulk ==
    [pc |-> "idle", op |-> "", stored |-> << >>, registered |-> {}, targets |-> {},
     todo |-> << >>, attempted |-> << >>, failed |-> {}]

IdleHandler ==
    [pc |-> "idle", msg |-> 0, channel |-> NoChannel, session_id |-> NoId,
     cs_id |-> NoId, is_new |-> FALSE, resume |-> NoId, reply_text |-> "",
     error |-> FALSE, count |-> 0, adapter |-> {}, created |-> FALSE, events |-> 0,
     stream |-> << >>]

\* no retention window of the task has expired yet
NoCleanup == [done |-> FALSE, expiries |-> 0]

\* P: the coroutines that call start_channel, stop_channel, restart_channel
\* or shutdown
GatewayCoreWith(row, P) ==
    /\ db_channels = [c \in {Ch} |-> row]
    /\ db_channel_sessions = {}
    /\ db_channel_messages = << >>
    /\ adapters = << >>
    /\ tasks = << >>
    /\ channel_cache = << >>
    /\ windows = << >>
    /\ now = 0
    /\ inst_pc = << >>
    /\ inst_stopped = << >>
    /\ caller = [p \in P |-> IdleCaller]
    /\ handler = [h \in Handlers |-> IdleHandler]
    /\ sent = << >>
    /\ uuid = 0
    /\ hist = << >>
    /\ done_log = << >>
    /\ rl_log = << >>
    /\ access_log = << >>
    /\ status_call = IdleStatusCall
    /\ stream_log = << >>
    /\ cleanup = NoCleanup

GatewayCore(row) == GatewayCoreWith(row, Callers)

GatewayInit(row) == GatewayCore(row) /\ bulk = NoBulk

DefaultRateLimit == 10

DefaultChannel == ChannelRow("feishu", "open", {}, {}, DefaultRateLimit)

Init == TaskManagerInit /\ GatewayInit(DefaultChannel)

dbVars == <<db_channels, db_channel_sessions, db_channel_messages>>
refVars == <<adapters, tasks, channel_cache>>
instVars == <<inst_pc, inst_stopped>>
limiterVars == <<windows, now, rl_log>>
msgVars == <<handler, sent, uuid, done_log>>
\* state of the coroutines and histories that the lifecycle and message steps
\* do not touch
sideVars == <<access_log, status_call, bulk, stream_log, cleanup>>

(***************************************************************************)
(* The supervised adapter unit: start_channel._run_adapter                 *)
(***************************************************************************)
InstDone == {"returned", "crashed", "cancelled"}

\* the adapter hands inbound messages to the gateway
Listening(i) == inst_pc[i] \in {"running", "returned"} /\ ~inst_stopped[i]

DbChannelUpdate(st, msg) ==
    db_channels' = [db_channels EXCEPT ![Ch].status = st, ![Ch].error_message = msg]

\* line 176: the unit starts and suspends in adapter.start()
run_adapter_begin(i) ==
    /\ inst_pc[i] = "scheduled"
    /\ inst_pc' = [inst_pc EXCEPT ![i] = "running"]
    /\ UNCHANGED <<tmVars, sideVars, dbVars, refVars, inst_stopped, limiterVars, caller, msgVars, hist>>

\* line 176: adapter.start() returns
run_adapter_return(i) ==
    /\ inst_pc[i] = "running"
    /\ inst_pc' = [inst_pc EXCEPT ![i] = "returned"]
    /\ UNCHANGED <<tmVars, sideVars, dbVars, refVars, inst_stopped, limiterVars, caller, msgVars, hist>>

\* lines 179-181: adapter.start() raises; the unit suspends on the store
run_adapter_raise(i) ==
    /\ inst_pc[i] = "running"
    /\ inst_pc' = [inst_pc EXCEPT ![i] = "crash_update"]
    /\ UNCHANGED <<tmVars, sideVars, dbVars, refVars, inst_stopped, limiterVars, caller, msgVars, hist>>

\* mutant: the crash handler marks the channel inactive
run_adapter_cleanup_MarksInactive(i) ==
    /\ inst_pc[i] = "crash_update"
    /\ inst_pc' = [inst_pc EXCEPT ![i] = "crashed"]
    /\ DbChannelUpdate("inactive", None)
    /\ adapters' = Pop(adapters, Ch)
    /\ tasks' = Pop(tasks, Ch)
    /\ channel_cache' = Pop(channel_cache, Ch)
    /\ hist' = Append(hist, "crash")
    /\ UNCHANGED <<tmVars, sideVars, db_channel_sessions, db_channel_messages, inst_stopped,
                   limiterVars, caller, msgVars>>

\* lines 181-188: status error is stored, then the references are dropped
run_adapter_cleanup(i) ==
    /\ inst_pc[i] = "crash_update"
    /\ inst_pc' = [inst_pc EXCEPT ![i] = "crashed"]
    /\ DbChannelUpdate("error", "Adapter crashed unexpectedly")
    /\ adapters' = Pop(adapters, Ch)
    /\ tasks' = Pop(tasks, Ch)
    /\ channel_cache' = Pop(channel_cache, Ch)
    /\ hist' = Append(hist, "crash")
    /\ UNCHANGED <<tmVars, sideVars, db_channel_sessions, db_channel_messages, inst_stopped,
                   limiterVars, caller, msgVars>>

(***************************************************************************)
(* ChannelGateway.stop_channel                                             *)
(***************************************************************************)
\* lines 209-212: Task.cancel() on a live unit; a unit that never started is
\* cancelled without running, one suspended in start() or in its crash
\* handler unwinds at that await
AfterAdapterStop(p, ret, task, stopped) ==
    IF \E i \in task : inst_pc[i] \notin InstDone
    THEN /\ inst_pc' = [i \in DOMAIN inst_pc |->
                          IF i \in task /\ inst_pc[i] \notin InstDone
                          THEN "cancelled" ELSE inst_pc[i]]
         /\ caller' = [caller EXCEPT ![p].pc = "stop_task", ![p].ret = ret,
                                     ![p].adapter = stopped, ![p].task = task]
    ELSE /\ caller' = [caller EXCEPT ![p].pc = "stop_update", ![p].ret = ret,
                                     ![p].adapter = stopped, ![p].task = task]
         /\ UNCHANGED inst_pc

\* lines 199-205: entry of stop_channel up to its first await; adapter.stop()
\* runs up to its own first await, which marks the adapter as stopped
StopChannelFrom(p, ret) ==
    LET adapter == IF Has(adapters, Ch) THEN {adapters[Ch]} ELSE {}
        task == IF Has(tasks, Ch) THEN {tasks[Ch]} ELSE {}
    IN  /\ adapters' = Pop(adapters, Ch)
        /\ tasks' = Pop(tasks, Ch)
        /\ channel_cache' = Pop(channel_cache, Ch)
        /\ inst_stopped' = [i \in DOMAIN inst_stopped |-> inst_stopped[i] \/ i \in adapter]
        /\ IF adapter # {}
           THEN /\ caller' = [caller EXCEPT ![p].pc = "stop_adapter", ![p].ret = ret,
                                            ![p].adapter = adapter, ![p].task = task]
                /\ UNCHANGED inst_pc
           ELSE AfterAdapterStop(p, ret, task, adapter)

\* lines 131-135: entry of start_channel up to its first await
StartChannelFrom(p) ==
    IF Has(adapters, Ch)
    THEN StopChannelFrom(p, "line135")
    ELSE /\ caller' = [caller EXCEPT ![p].pc = "start_get"]
         /\ UNCHANGED <<refVars, instVars>>

\* calls of start_channel, stop_channel and restart_channel made so far
OpsBudget ==
    Len(SelectSeq(hist, LAMBDA x : x # "crash"))
        + Cardinality({p \in DOMAIN caller : caller[p].pc # "idle"}) < MaxOps

\* stop_channel is called; lines 199-205
stop_channel(p) ==
    /\ caller[p].pc = "idle"
    /\ OpsBudget
    /\ StopChannelFrom(p, "return")
    /\ UNCHANGED <<tmVars, sideVars, dbVars, limiterVars, msgVars, hist>>

\* lines 205-212: adapter.stop() has returned or raised
stop_channel_adapter_stopped(p) ==
    /\ caller[p].pc = "stop_adapter"
    /\ AfterAdapterStop(p, caller[p].ret, caller[p].task, caller[p].adapter)
    /\ UNCHANGED <<tmVars, sideVars, dbVars, refVars, inst_stopped, limiterVars, msgVars, hist>>

\* lines 212-218: the awaited unit has finished
stop_channel_task_done(p) ==
    /\ caller[p].pc = "stop_task"
    /\ \A i \in caller[p].task : inst_pc[i] \in InstDone
    /\ caller' = [caller EXCEPT ![p].pc = "stop_update"]
    /\ UNCHANGED <<tmVars, sideVars, dbVars, refVars, instVars, limiterVars, msgVars, hist>>

\* lines 218-219: status inactive is stored and stop_channel returns, to its
\* caller, to line 135 of start_channel, or to line 224 of restart_channel
stop_channel_update(p) ==
    /\ caller[p].pc = "stop_update"
    /\ caller[p].ret \in {"return", "line135", "line224"}
    /\ DbChannelUpdate("inactive", None)
    /\ hist' = Append(hist, "stop")
    /\ IF caller[p].ret = "return"
       THEN /\ caller' = [caller EXCEPT ![p] = IdleCaller]
            /\ UNCHANGED <<refVars, instVars>>
       ELSE IF caller[p].ret = "line135"
       THEN /\ caller' = [caller EXCEPT ![p].pc = "start_get"]
            /\ UNCHANGED <<refVars, instVars>>
       ELSE StartChannelFrom(p)
    /\ UNCHANGED <<tmVars, sideVars, db_channel_sessions, db_channel_messages, limiterVars, msgVars>>

(***************************************************************************)
(* ChannelGateway.restart_channel                                          *)
(***************************************************************************)
\* line 223
restart_channel(p) ==
    /\ caller[p].pc = "idle"
    /\ OpsBudget
    /\ StopChannelFrom(p, "line224")
    /\ UNCHANGED <<tmVars, sideVars, dbVars, limiterVars, msgVars, hist>>

(***************************************************************************)
(* ChannelGateway.start_channel                                            *)
(***************************************************************************)
\* start_channel is called; lines 131-135
start_channel(p) ==
    /\ caller[p].pc = "idle"
    /\ OpsBudget
    /\ StartChannelFrom(p)
    /\ UNCHANGED <<tmVars, sideVars, dbVars, limiterVars, msgVars, hist>>

\* mutant: the adapter class is not looked up in the registry
start_channel_loaded_NoRegistryCheck(p) ==
    /\ caller[p].pc = "start_get"
    /\ caller' = [caller EXCEPT ![p].channel = db_channels[Ch],
                                ![p].pc = "start_validate"]
    /\ UNCHANGED <<tmVars, sideVars, dbVars, refVars, instVars, limiterVars, msgVars, hist>>

\* lines 135-163: the row is loaded, the adapter class looked up and the
\* adapter constructed
start_channel_loaded(p) ==
    /\ caller[p].pc = "start_get"
    /\ caller' = [caller EXCEPT
                    ![p].channel = db_channels[Ch],
                    ![p].pc = IF db_channels[Ch].channel_type \in AdapterRegistry
                              THEN "start_validate" ELSE "start_no_adapter"]
    /\ UNCHANGED <<tmVars, sideVars, dbVars, refVars, instVars, limiterVars, msgVars, hist>>

\* lines 144-145 and 167-168: status error is stored and ValueError raised
start_channel_failed(p) ==
    /\ caller[p].pc \in {"start_no_adapter", "start_invalid"}
    /\ DbChannelUpdate("error", IF caller[p].pc = "start_no_adapter"
                                 THEN "No adapter registered for channel type"
                                 ELSE "Invalid config for channel")
    /\ hist' = Append(hist, "start_failed")
    /\ caller' = [caller EXCEPT ![p] = IdleCaller]
    /\ UNCHANGED <<tmVars, sideVars, db_channel_sessions, db_channel_messages, refVars, instVars,
                   limiterVars, msgVars>>

\* mutant: the result of validate_config() is stored but the adapter is
\* started all the same
start_channel_validated_StartsAnyway(p, is_valid) ==
    /\ caller[p].pc = "start_validate"
    /\ channel_cache' = Put(channel_cache, Ch, caller[p].channel)
    /\ inst_pc' = Append(inst_pc, "scheduled")
    /\ inst_stopped' = Append(inst_stopped, FALSE)
    /\ adapters' = Put(adapters, Ch, Len(inst_pc) + 1)
    /\ tasks' = Put(tasks, Ch, Len(inst_pc) + 1)
    /\ caller' = [caller EXCEPT ![p].pc = IF is_valid THEN "start_active"
                                          ELSE "start_invalid"]
    /\ UNCHANGED <<tmVars, sideVars, dbVars, limiterVars, msgVars, hist>>

\* lines 163-194: validate_config() has returned; on success the row is
\* cached, the supervised unit created and both references stored
start_channel_validated(p, is_valid) ==
    /\ caller[p].pc = "start_validate"
    /\ IF is_valid
       THEN /\ channel_cache' = Put(channel_cache, Ch, caller[p].channel)
            /\ inst_pc' = Append(inst_pc, "scheduled")
            /\ inst_stopped' = Append(inst_stopped, FALSE)
            /\ adapters' = Put(adapters, Ch, Len(inst_pc) + 1)
            /\ tasks' = Put(tasks, Ch, Len(inst_pc) + 1)
            /\ caller' = [caller EXCEPT ![p].pc = "start_active"]
       ELSE /\ caller' = [caller EXCEPT ![p].pc = "start_invalid"]
            /\ UNCHANGED <<refVars, instVars>>
    /\ UNCHANGED <<tmVars, sideVars, dbVars, limiterVars, msgVars, hist>>

\* lines 194-195: status active is stored and start_channel returns
start_channel_active(p) ==
    /\ caller[p].pc = "start_active"
    /\ DbChannelUpdate("active", None)
    /\ hist' = Append(hist, "start_ok")
    /\ caller' = [caller EXCEPT ![p] = IdleCaller]
    /\ UNCHANGED <<tmVars, sideVars, db_channel_sessions, db_channel_messages, refVars, instVars,
                   limiterVars, msgVars>>

(***************************************************************************)
(* Persisted store, channel_sessions table (database/sqlite.py)            *)
(***************************************************************************)
\* find_by_external: the rows stored for the external conversation
FindByExternal(chat) == {r \in db_channel_sessions : r.chat = chat}

\* put: the store keeps one row per external conversation and rejects a
\* second one
ChannelSessionsAfterPut_NoUnique(row) == db_channel_sessions \cup {row}

ChannelSessionsAfterPut(row) ==
    IF FindByExternal(row.chat) # {} THEN db_channel_sessions
    ELSE db_channel_sessions \cup {row}

\* update: merges the fields into the row with that id, if there is one
ChannelSessionsAfterUpdate(id, updates) ==
    {IF r.id = id
     THEN [f \in DOMAIN r |-> IF f \in DOMAIN updates THEN updates[f] ELSE r[f]]
     ELSE r : r \in db_channel_sessions}

AuditRow(h, direction, status, content) ==
    [channel_session_id |-> handler[h].cs_id, direction |-> direction,
     status |-> status, content |-> content]

(***************************************************************************)
(* ChannelGateway.handle_inbound_message                                   *)
(***************************************************************************)
\* what a finished call of handle_inbound_message did
DoneEntry(h, outcome) ==
    [msg |-> handler[h].msg, outcome |-> outcome, error |-> handler[h].error,
     created |-> handler[h].created, is_new |-> handler[h].is_new,
     resume |-> handler[h].resume, cs_id |-> handler[h].cs_id]

\* the coroutine returns
HandlerReturn(h) == [handler EXCEPT ![h] = IdleHandler]

\* an adapter hands a message to the gateway: the coroutine is scheduled
deliver(i, h) ==
    /\ Listening(i)
    /\ handler[h].pc = "idle"
    /\ handler' = [handler EXCEPT ![h].pc = "scheduled",
                     ![h].msg = Len(done_log) +
                                Cardinality({g \in Handlers : handler[g].pc # "idle"}) + 1]
    /\ UNCHANGED <<tmVars, sideVars, dbVars, refVars, instVars, limiterVars, caller, sent, uuid,
                   done_log, hist>>

\* mutant: the rate limiter is asked before the access check
HandleWithChannel_LimitsFirst(h, channel) ==
    /\ windows' = WindowsAfter(Sender, channel.rate_limit_per_minute, now)
    /\ rl_log' = Append(rl_log, [t |-> now, allowed |->
                            is_allowed(Sender, channel.rate_limit_per_minute, now)])
    /\ UNCHANGED now
    /\ IF channel.agent_id = None \/ ~check_access(channel, Sender)
       THEN /\ handler' = HandlerReturn(h)
            /\ done_log' = Append(done_log, DoneEntry(h, "dropped"))
       ELSE IF ~is_allowed(Sender, channel.rate_limit_per_minute, now)
            THEN IF Has(adapters, Ch)
                 THEN /\ handler' = [handler EXCEPT ![h].pc = "notice",
                                       ![h].channel = channel,
                                       ![h].adapter = {adapters[Ch]}]
                      /\ UNCHANGED done_log
                 ELSE /\ handler' = HandlerReturn(h)
                      /\ done_log' = Append(done_log, DoneEntry(h, "limited"))
            ELSE /\ handler' = [handler EXCEPT ![h].pc = "find", ![h].channel = channel]
                 /\ UNCHANGED done_log

\* lines 303-340: agent check, access control and rate limiting, up to the
\* first await of _resolve_session or of the rate-limit notice
HandleWithChannel(h, channel) ==
    IF channel.agent_id = None \/ ~check_access(channel, Sender)
    THEN /\ handler' = HandlerReturn(h)
         /\ done_log' = Append(done_log, DoneEntry(h, "dropped"))
         /\ UNCHANGED limiterVars
    ELSE /\ windows' = WindowsAfter(Sender, channel.rate_limit_per_minute, now)
         /\ rl_log' = Append(rl_log, [t |-> now, allowed |->
                                 is_allowed(Sender, channel.rate_limit_per_minute, now)])
         /\ UNCHANGED now
         /\ IF ~is_allowed(Sender, channel.rate_limit_per_minute, now)
            THEN IF Has(adapters, Ch)
                 THEN /\ handler' = [handler EXCEPT ![h].pc = "notice",
                                       ![h].channel = channel,
                                       ![h].adapter = {adapters[Ch]}]
                      /\ UNCHANGED done_log
                 ELSE /\ handler' = HandlerReturn(h)
                      /\ done_log' = Append(done_log, DoneEntry(h, "limited"))
            ELSE /\ handler' = [handler EXCEPT ![h].pc = "find", ![h].channel = channel]
                 /\ UNCHANGED done_log

\* mutant: the handler reads the stored row even when the cache has an entry
handle_inbound_message_ReadsStore(h) ==
    /\ handler[h].pc = "scheduled"
    /\ IF Has(channel_cache, Ch)
       THEN HandleWithChannel(h, db_channels[Ch])
       ELSE /\ handler' = [handler EXCEPT ![h].pc = "load"]
            /\ UNCHANGED <<limiterVars, done_log>>
    /\ UNCHANGED <<tmVars, sideVars, dbVars, refVars, instVars, caller, sent, uuid, hist>>

\* lines 295-297: the coroutine starts; cache hit or store lookup
handle_inbound_message(h) ==
    /\ handler[h].pc = "scheduled"
    /\ IF Has(channel_cache, Ch)
       THEN HandleWithChannel(h, channel_cache[Ch])
       ELSE /\ handler' = [handler EXCEPT ![h].pc = "load"]
            /\ UNCHANGED <<limiterVars, done_log>>
    /\ UNCHANGED <<tmVars, sideVars, dbVars, refVars, instVars, caller, sent, uuid, hist>>

\* lines 297-301: the row arrives from the store and is cached
handle_inbound_loaded(h) ==
    /\ handler[h].pc = "load"
    /\ channel_cache' = Put(channel_cache, Ch, db_channels[Ch])
    /\ HandleWithChannel(h, db_channels[Ch])
    /\ UNCHANGED <<tmVars, sideVars, dbVars, adapters, tasks, instVars, caller, sent, uuid, hist>>

SentAfter_Dropped(h, text) == sent

\* adapter.send_message: accepted while the adapter is connected
SentAfter(h, text) ==
    IF \E i \in handler[h].adapter : Listening(i)
    THEN Append(sent, [msg |-> handler[h].msg, text |-> text])
    ELSE sent

\* mutant: after the notice the message is handled all the same
handle_inbound_notice_Continues(h) ==
    /\ handler[h].pc = "notice"
    /\ sent' = SentAfter(h, RateLimitNotice)
    /\ handler' = [handler EXCEPT ![h].pc = "find"]
    /\ UNCHANGED <<tmVars, sideVars, dbVars, refVars, instVars, limiterVars, caller, uuid,
                   hist, done_log>>

\* lines 327-336: the rate-limit notice has been handed to the adapter
handle_inbound_notice(h) ==
    /\ handler[h].pc = "notice"
    /\ sent' = SentAfter(h, RateLimitNotice)
    /\ handler' = HandlerReturn(h)
    /\ done_log' = Append(done_log, DoneEntry(h, "limited"))
    /\ UNCHANGED <<tmVars, sideVars, dbVars, refVars, instVars, limiterVars, caller, uuid, hist>>

(***************************************************************************)
(* ChannelGateway._resolve_session                                         *)
(***************************************************************************)
\* mutant: the existing mapping is not looked up, every call creates one
resolve_session_found_NoLookup(h) ==
    /\ handler[h].pc = "find"
    /\ handler' = [handler EXCEPT ![h].pc = "store_session",
                     ![h].session_id = Uuid(uuid + 1)]
    /\ uuid' = uuid + 1
    /\ UNCHANGED <<tmVars, sideVars, dbVars, refVars, instVars, limiterVars, caller, sent,
                   done_log, hist>>

\* lines 616-639: find_by_external has returned
resolve_session_found(h) ==
    /\ handler[h].pc = "find"
    /\ IF FindByExternal(Chat) # {}
       THEN /\ \E existing \in FindByExternal(Chat) :
                 handler' = [handler EXCEPT ![h].pc = "log_inbound",
                               ![h].session_id = existing.session_id,
                               ![h].cs_id = existing.id,
                               ![h].is_new = (existing.message_count = 0)]
            /\ UNCHANGED uuid
       ELSE /\ handler' = [handler EXCEPT ![h].pc = "store_session",
                             ![h].session_id = Uuid(uuid + 1)]
            /\ uuid' = uuid + 1
    /\ UNCHANGED <<tmVars, sideVars, dbVars, refVars, instVars, limiterVars, caller, sent,
                   done_log, hist>>

\* lines 635-649: the internal session is stored
resolve_session_stored(h) ==
    /\ handler[h].pc = "store_session"
    /\ handler' = [handler EXCEPT ![h].pc = "put", ![h].cs_id = Uuid(uuid + 1)]
    /\ uuid' = uuid + 1
    /\ UNCHANGED <<tmVars, sideVars, dbVars, refVars, instVars, limiterVars, caller, sent,
                   done_log, hist>>

NewChannelSession(h) ==
    [id |-> handler[h].cs_id, chat |-> Chat, session_id |-> handler[h].session_id,
     message_count |-> 0, last_message_at |-> handler[h].msg]

\* lines 643-661 and 348-355: put has returned the stored row, or has failed
\* on a row that exists already, which drops the message
resolve_session_created(h, conflict_raises) ==
    /\ handler[h].pc = "put"
    /\ db_channel_sessions' = ChannelSessionsAfterPut(NewChannelSession(h))
    /\ IF FindByExternal(Chat) # {} /\ conflict_raises
       THEN /\ handler' = HandlerReturn(h)
            /\ done_log' = Append(done_log, DoneEntry(h, "dropped"))
       ELSE /\ handler' = [handler EXCEPT ![h].pc = "log_inbound", ![h].is_new = TRUE,
                             ![h].created = (FindByExternal(Chat) = {})]
            /\ UNCHANGED done_log
    /\ UNCHANGED <<tmVars, sideVars, db_channels, db_channel_messages, refVars, instVars,
                   limiterVars, caller, sent, uuid, hist>>

(***************************************************************************)
(* handle_inbound_message, lines 352-532                                   *)
(***************************************************************************)
GwEvent(type, sid, text, subtype) ==
    [type |-> type, sid |-> sid, text |-> text, subtype |-> subtype]

SessionStart(n) == GwEvent("session_start", SdkId(n), "", "")
Assistant(text) == GwEvent("assistant", NoId, text, "")
Result(subtype) == GwEvent("result", NoId, "", subtype)
EngineError == GwEvent("error", NoId, "", "")
ToolUse == GwEvent("tool_use", NoId, "", "")
\* how the stream ended: exhausted, or by raising
StreamEnded == GwEvent("end", NoId, "", "")
StreamRaised == GwEvent("raise", NoId, "", "")

\* the stream of the end-to-end scenario
Scenario == <<SessionStart(1), Assistant("hello"), Result("success"), StreamEnded>>

IsPrefix(s, t) == Len(s) <= Len(t) /\ s = SubSeq(t, 1, Len(s))

\* history of one engine invocation: its events while they follow the
\* scenario, a single other event once they do not
StreamAfter(h, e) ==
    IF IsPrefix(Append(handler[h].stream, e), Scenario)
    THEN Append(handler[h].stream, e) ELSE <<ToolUse>>

GwEvents ==
    {SessionStart(1), SessionStart(2), Assistant("hello"), Assistant(""),
     Result("success"), Result("error_during_execution"), EngineError, ToolUse}

\* mutant: the stored session id is always passed to the engine
handle_inbound_logged_AlwaysResumes(h) ==
    /\ handler[h].pc = "log_inbound"
    /\ db_channel_messages' = Append(db_channel_messages,
                                     AuditRow(h, "inbound", "received", "hi"))
    /\ handler' = [handler EXCEPT ![h].pc = "engine",
                     ![h].resume = handler[h].session_id]
    /\ UNCHANGED <<tmVars, sideVars, db_channels, db_channel_sessions, refVars, instVars,
                   limiterVars, caller, sent, uuid, done_log, hist>>

\* lines 355-409: the inbound audit row is stored and the engine invoked
handle_inbound_logged(h) ==
    /\ handler[h].pc = "log_inbound"
    /\ db_channel_messages' = Append(db_channel_messages,
                                     AuditRow(h, "inbound", "received", "hi"))
    /\ handler' = [handler EXCEPT ![h].pc = "engine",
                     ![h].resume = IF handler[h].is_new THEN NoId
                                   ELSE handler[h].session_id]
    /\ UNCHANGED <<tmVars, sideVars, db_channels, db_channel_sessions, refVars, instVars,
                   limiterVars, caller, sent, uuid, done_log, hist>>

\* line 460: subtype and "error" in subtype
IsErrorSubtype(subtype) == subtype = "error_during_execution"

\* mutant: the first assistant text is kept
ReplyAfter_FirstAssistant(h, e) ==
    IF e.type = "assistant" /\ e.text # "" /\ handler[h].reply_text = "" THEN e.text
    ELSE IF e.type = "result" /\ IsErrorSubtype(e.subtype) /\ handler[h].reply_text = ""
         THEN ResultErrorReply
    ELSE IF e.type = "error" /\ handler[h].reply_text = "" THEN ErrorEventReply
    ELSE handler[h].reply_text

\* lines 419-476: reply_text after the event
ReplyAfter(h, e) ==
    IF e.type = "assistant" /\ e.text # "" THEN e.text
    ELSE IF e.type = "result" /\ IsErrorSubtype(e.subtype) /\ handler[h].reply_text = ""
         THEN ResultErrorReply
    ELSE IF e.type = "error" /\ handler[h].reply_text = "" THEN ErrorEventReply
    ELSE handler[h].reply_text

ErrorAfter_Never(h, e) == handler[h].error

ErrorAfter(h, e) ==
    \/ handler[h].error
    \/ e.type = "result" /\ IsErrorSubtype(e.subtype)
    \/ e.type = "error"

\* lines 409-478: one event of the engine stream (the history stream_log is
\* written by the specification that traces the exchange)
handle_inbound_event(h, e) ==
    /\ handler[h].pc = "engine"
    /\ handler' = [handler EXCEPT
                     ![h].stream = StreamAfter(h, e),
                     ![h].events = @ + 1,
                     ![h].reply_text = ReplyAfter(h, e),
                     ![h].error = ErrorAfter(h, e),
                     ![h].session_id =
                         IF e.type = "session_start" /\ e.sid # NoId THEN e.sid ELSE @,
                     ![h].pc =
                         IF e.type = "session_start" /\ e.sid # NoId
                            /\ e.sid # handler[h].session_id
                         THEN "session_update" ELSE "engine"]
    /\ UNCHANGED <<tmVars, access_log, status_call, bulk, cleanup, dbVars, refVars, instVars, limiterVars, caller, sent, uuid,
                   done_log, hist>>

\* mutant: the new session id is kept in the local variable only
handle_inbound_session_updated_NotStored(h) ==
    /\ handler[h].pc = "session_update"
    /\ handler' = [handler EXCEPT ![h].pc = "engine"]
    /\ UNCHANGED <<tmVars, sideVars, dbVars, refVars, instVars,
                   limiterVars, caller, sent, uuid, done_log, hist>>

\* lines 443-446: the ChannelSession now points to the engine's session id
handle_inbound_session_updated(h) ==
    /\ handler[h].pc = "session_update"
    /\ db_channel_sessions' =
           ChannelSessionsAfterUpdate(handler[h].cs_id,
                                      [session_id |-> handler[h].session_id])
    /\ handler' = [handler EXCEPT ![h].pc = "engine"]
    /\ UNCHANGED <<tmVars, sideVars, db_channels, db_channel_messages, refVars, instVars,
                   limiterVars, caller, sent, uuid, done_log, hist>>

\* lines 480-501: the stream ends or raises; the reply is chosen and handed
\* to the adapter registered for the channel, if there is one
handle_inbound_stream_end(h, raised) ==
    /\ handler[h].pc = "engine"
    /\ LET text == IF raised THEN ExceptionReply
                   ELSE IF handler[h].reply_text = "" THEN NoResponseReply
                   ELSE handler[h].reply_text
       IN handler' = [handler EXCEPT
                        ![h].stream = StreamAfter(h, IF raised THEN StreamRaised ELSE StreamEnded),
                        ![h].reply_text = text,
                        ![h].error = @ \/ raised,
                        ![h].adapter = IF Has(adapters, Ch) THEN {adapters[Ch]} ELSE {},
                        ![h].pc = IF Has(adapters, Ch) THEN "send" ELSE "log_outbound"]
    /\ UNCHANGED <<tmVars, access_log, status_call, bulk, cleanup, dbVars, refVars, instVars, limiterVars, caller, sent, uuid,
                   done_log, hist>>

\* lines 501-507: adapter.send_message has returned or raised
handle_inbound_sent(h) ==
    /\ handler[h].pc = "send"
    /\ sent' = SentAfter(h, handler[h].reply_text)
    /\ handler' = [handler EXCEPT ![h].pc = "log_outbound"]
    /\ UNCHANGED <<tmVars, sideVars, dbVars, refVars, instVars, limiterVars, caller, uuid,
                   done_log, hist>>

\* lines 507-530: the outbound audit row is stored
handle_inbound_out_logged(h) ==
    /\ handler[h].pc = "log_outbound"
    /\ db_channel_messages' =
           Append(db_channel_messages,
                  AuditRow(h, "outbound", IF handler[h].error THEN "error" ELSE "sent",
                           handler[h].reply_text))
    /\ handler' = [handler EXCEPT ![h].pc = IF handler[h].error THEN "update"
                                            ELSE "count_get"]
    /\ UNCHANGED <<tmVars, sideVars, db_channels, db_channel_sessions, refVars, instVars,
                   limiterVars, caller, sent, uuid, done_log, hist>>

\* lines 527-530: the stored message_count is read
handle_inbound_count_read(h) ==
    /\ handler[h].pc = "count_get"
    /\ LET rows == {r \in db_channel_sessions : r.id = handler[h].cs_id}
       IN handler' = [handler EXCEPT ![h].pc = "update",
                        ![h].count = IF rows = {} THEN 2
                                     ELSE (CHOOSE r \in rows : TRUE).message_count + 2]
    /\ UNCHANGED <<tmVars, sideVars, dbVars, refVars, instVars, limiterVars, caller, sent, uuid,
                   done_log, hist>>

UpdatesOf_AlwaysCount(h) ==
    [last_message_at |-> handler[h].msg, message_count |-> handler[h].count + 2]

\* lines 525-529: the fields written by the final update
UpdatesOf(h) ==
    IF handler[h].error
    THEN [last_message_at |-> handler[h].msg]
    ELSE [last_message_at |-> handler[h].msg, message_count |-> handler[h].count]

\* lines 530-532: last_message_at and message_count are stored; the
\* coroutine returns
handle_inbound_updated(h) ==
    /\ handler[h].pc = "update"
    /\ db_channel_sessions' =
           ChannelSessionsAfterUpdate(handler[h].cs_id, UpdatesOf(h))
    /\ handler' = HandlerReturn(h)
    /\ done_log' = Append(done_log, DoneEntry(h, "replied"))
    /\ UNCHANGED <<tmVars, sideVars, db_channels, db_channel_messages, refVars, instVars,
                   limiterVars, caller, sent, uuid, hist>>

(***************************************************************************)
(* Specification of the task manager                                       *)
(***************************************************************************)
EngineBudget == Len(emitted) < MaxEvents

TaskEngineEvent == EngineBudget /\ \E ty \in EngineEventTypes : run_task_event(ty)

PendingEngineEvent == EngineBudget /\ \E ty \in EngineEventTypes : pending_event(ty)

Subscribe == \E s \in Subs : subscribe(s)

SubscribeNextBuffered == \E s \in Subs : subscribe_next_buffered(s)

SubscribeQueueGet == \E s \in Subs : subscribe_queue_get(s)

SubscribeNextLive == \E s \in Subs : subscribe_next_live(s)

Next ==
    \/ create_task
    \/ run_task_begin
    \/ run_task_running
    \/ TaskEngineEvent
    \/ run_task_session_id
    \/ run_task_failed
    \/ run_task_completed
    \/ run_task_stream_end
    \/ run_task_raise
    \/ run_task_exc_failed
    \/ run_task_cancelled
    \/ run_task_mark_cancelled
    \/ pending_get_message
    \/ pending_resume
    \/ PendingEngineEvent
    \/ pending_failed
    \/ pending_completed
    \/ pending_stream_end
    \/ Subscribe
    \/ SubscribeNextBuffered
    \/ SubscribeQueueGet
    \/ SubscribeNextLive
    \/ send_message_call
    \/ send_message_resume
    \/ cancel_task_call
    \/ cancel_task_return

Spec == Init /\ [][Next]_vars

(***************************************************************************)
(* Properties of the task manager                                          *)
(***************************************************************************)
HasTerminal(seq) == \E i \in 1..Len(seq) : IsTerminal(seq[i])

UpToFirstTerminal(seq) ==
    LET idx == {i \in 1..Len(seq) : IsTerminal(seq[i])}
    IN  IF idx = {} THEN seq
        ELSE SubSeq(seq, 1, CHOOSE i \in idx : \A j \in idx : i <= j)

\* the subscription was started, before any terminal event was emitted
StartedBeforeTerminal(s) == sub_pc[s] # "idle" /\ ~HasTerminal(sub_snap[s])

\* what the consumer got so far, then what the generator still holds for it
Pending(s) ==
    sub_recv[s] \o SubSeq(sub_snap[s], Len(sub_recv[s]) + 1, Len(sub_snap[s])) \o queues[s]

\* C1 as stated: a subscriber that subscribed before the task reached a
\* terminal event has received, once its subscription and the task are over,
\* exactly the events the task emitted, in emission order.
C1_ReceivesAllEmitted ==
    \A s \in Subs :
        (StartedBeforeTerminal(s) /\ sub_pc[s] = "ended" /\ run_pc = "done")
            => sub_recv[s] = emitted

\* C1 amended: a subscriber that subscribed before the task reached a terminal
\* event receives the emitted events in emission order without duplicate or
\* gap (what it got plus what is still held for it is always exactly what was
\* emitted), and its subscription ends having received exactly the emitted
\* events up to and including the first terminal event.
C1_OrderedUpToTerminal ==
    \A s \in Subs :
        StartedBeforeTerminal(s) =>
            /\ sub_pc[s] \in {"buffered", "wait", "live"} => Pending(s) = emitted
            /\ sub_pc[s] = "ended" => sub_recv[s] = UpToFirstTerminal(emitted)

\* C1 witness: a subscription that started while events were already buffered,
\* got further events from its live queue, and ended on the terminal event
C1_Witness ==
    \E s \in Subs :
        /\ StartedBeforeTerminal(s)
        /\ sub_pc[s] = "ended"
        /\ Len(sub_snap[s]) >= 2
        /\ Len(sub_recv[s]) >= Len(sub_snap[s]) + 2

\* C2: a subscription that has yielded a terminal status event or a result or
\* error event terminates: it never goes back to waiting on its live queue.
C2_EndsAfterTerminal ==
    \A s \in Subs : HasTerminal(sub_recv[s]) => sub_pc[s] # "wait"

\* C7: a task paused on ask_user_question keeps persisted status running
\* while it waits on its message queue; send_message on it returns true and
\* enqueues the input; every event of the resumed engine invocation is
\* appended to the task's buffer and put on the queue of every registered
\* subscriber; send_message on a completed task returns false.
C7_PausedIsRunning ==
    run_pc = "await_message" => (Has(db_tasks, T) /\ db_tasks[T].status = "running")

C7_SendResult ==
    (send_pc = "await_task_get" /\ send_pc' = "idle") =>
        /\ run_pc = "await_message" =>
              /\ send_result' = "True"
              /\ message_queues'[T] = Append(message_queues[T], send_count)
        /\ (Has(db_tasks, T) /\ db_tasks[T].status = "completed") =>
              /\ send_result' = "False"
              /\ message_queues' = message_queues

C7_ResumedRelayed ==
    (run_pc = "await_resumed" /\ emitted' # emitted) =>
        LET e == emitted'[Len(emitted')]
        IN  /\ Has(event_buffers', T)
            /\ event_buffers'[T] = Append(event_buffers[T], e)
            /\ \A s \in Subs :
                  InSeq(subscribers[T], s) => queues'[s] = Append(queues[s], e)

C7_PauseResume ==
    /\ []C7_PausedIsRunning
    /\ [][C7_SendResult]_vars
    /\ [][C7_ResumedRelayed]_vars

\* C7 witness: a message was accepted, the engine was resumed with it, the
\* task completed, and a subscriber attached before the question received the
\* events of both invocations
C7_Witness ==
    /\ send_result = "True"
    /\ Len(run_inputs) = 1
    /\ run_pc = "done"
    /\ db_tasks[T].status = "completed"
    /\ \E s \in Subs :
          /\ sub_pc[s] = "ended"
          /\ sub_recv[s] = emitted
          /\ \E i \in 1..Len(emitted) : emitted[i].type = "ask_user_question"

(***************************************************************************)
(* Specification for the buffer bound: one task whose engine stream keeps   *)
(* producing events, and one subscriber                                     *)
(***************************************************************************)
MaxBufEvents == 102

BufSub == CHOOSE s \in Subs : TRUE

BufEngineEvent == Len(emitted) < MaxBufEvents /\ run_task_event("assistant")

BufSubscribe == subscribe(BufSub)

BufSubscribeNextBuffered == subscribe_next_buffered(BufSub)

BufSubscribeQueueGet == subscribe_queue_get(BufSub)

BufSubscribeNextLive == subscribe_next_live(BufSub)

NextBuf ==
    \/ create_task
    \/ run_task_begin
    \/ run_task_running
    \/ BufEngineEvent
    \/ BufSubscribe
    \/ BufSubscribeNextBuffered
    \/ BufSubscribeQueueGet
    \/ BufSubscribeNextLive

SpecBuf == Init /\ [][NextBuf]_vars

\* the n most recent elements of a sequence (all of it when it is shorter)
LastN(seq, n) == SubSeq(seq, IF Len(seq) > n THEN Len(seq) - n + 1 ELSE 1, Len(seq))

\* C8: the buffer of a task never holds more than 100 events and always is
\* the most recent 100 events emitted, in emission order; a subscriber takes
\* exactly the buffer as its snapshot and is yielded that snapshot first.
C8_BufferIsLast100 ==
    Has(event_buffers, T) =>
        /\ Len(event_buffers[T]) <= 100
        /\ event_buffers[T] = LastN(emitted, 100)

C8_SnapshotIsBuffer ==
    \A s \in Subs :
        (sub_pc[s] = "idle" /\ sub_pc'[s] # "idle") => sub_snap'[s] = LastN(emitted, 100)

C8_SnapshotYielded ==
    \A s \in Subs :
        /\ sub_pc[s] = "buffered" => sub_recv[s] = SubSeq(sub_snap[s], 1, Len(sub_recv[s]))
        /\ sub_pc[s] \in {"wait", "live", "ended"} =>
              SubSeq(sub_recv[s], 1, Len(sub_snap[s])) = sub_snap[s]

C8_BufferBound ==
    /\ [](C8_BufferIsLast100 /\ C8_SnapshotYielded)
    /\ [][C8_SnapshotIsBuffer]_vars

\* C8 witness: more than 100 events were emitted before a subscriber attached,
\* and it was yielded the 100 buffered ones, the oldest of them not the first
C8_Witness ==
    \E s \in Subs :
        /\ sub_pc[s] = "wait"
        /\ Len(sub_snap[s]) = 100
        /\ sub_snap[s][1].id > 1
        /\ sub_recv[s] = sub_snap[s]


(***************************************************************************)
(* Specification of message handling: one channel is started once and its  *)
(* adapter delivers messages of one external chat one after the other      *)
(***************************************************************************)

MsgRows ==
    {DefaultChannel,
     ChannelRow("feishu", "open", {}, {}, 1),
     ChannelRow("feishu", "blocklist", {}, {Sender}, DefaultRateLimit)}

InitMsg == TaskManagerInit /\ \E row \in MsgRows : GatewayInit(row)

InboundBudget ==
    Len(done_log) + Cardinality({g \in Handlers : handler[g].pc # "idle"}) < MaxInbound

StartOnce == hist = << >> /\ \E p \in Callers : start_channel(p)

StartLoaded == \E p \in Callers : start_channel_loaded(p)

StartValidated == \E p \in Callers, is_valid \in BOOLEAN : start_channel_validated(p, is_valid)

StartFailed == \E p \in Callers : start_channel_failed(p)

StartActive == \E p \in Callers : start_channel_active(p)

AdapterBegin == \E i \in DOMAIN inst_pc : run_adapter_begin(i)

DeliverOne == InboundBudget /\ \E i \in DOMAIN inst_pc : deliver(i, H1)

MsgEngineEvent ==
    /\ handler[H1].events < MaxStream
    /\ \E e \in GwEvents : handle_inbound_event(H1, e)
    /\ UNCHANGED stream_log

MsgStreamEnd ==
    /\ \E raised \in BOOLEAN : handle_inbound_stream_end(H1, raised)
    /\ UNCHANGED stream_log

MsgCreated == \E conflict_raises \in BOOLEAN : resolve_session_created(H1, conflict_raises)

NextMsg ==
    \/ StartOnce
    \/ StartLoaded
    \/ StartValidated
    \/ StartFailed
    \/ StartActive
    \/ AdapterBegin
    \/ DeliverOne
    \/ handle_inbound_message(H1)
    \/ handle_inbound_notice(H1)
    \/ resolve_session_found(H1)
    \/ resolve_session_stored(H1)
    \/ MsgCreated
    \/ handle_inbound_logged(H1)
    \/ MsgEngineEvent
    \/ handle_inbound_session_updated(H1)
    \/ MsgStreamEnd
    \/ handle_inbound_sent(H1)
    \/ handle_inbound_out_logged(H1)
    \/ handle_inbound_count_read(H1)
    \/ handle_inbound_updated(H1)

SpecMsg == InitMsg /\ [][NextMsg]_vars

(***************************************************************************)
(* Specification of concurrent message handling: two messages of the same  *)
(* new chat are handled at the same time                                   *)
(***************************************************************************)
RaceEvents == {SessionStart(1), EngineError}

DeliverAny == InboundBudget /\ \E i \in DOMAIN inst_pc, h \in Handlers : deliver(i, h)

RaceBegin == \E h \in Handlers : handle_inbound_message(h)

RaceFound == \E h \in Handlers : resolve_session_found(h)

RaceStored == \E h \in Handlers : resolve_session_stored(h)

RaceCreated ==
    \E h \in Handlers, conflict_raises \in BOOLEAN : resolve_session_created(h, conflict_raises)

RaceLogged == \E h \in Handlers : handle_inbound_logged(h)

RaceEngineEvent ==
    \E h \in Handlers, e \in RaceEvents :
        handler[h].events = 0 /\ handle_inbound_event(h, e) /\ UNCHANGED stream_log

RaceSessionUpdated == \E h \in Handlers : handle_inbound_session_updated(h)

RaceStreamEnd ==
    /\ \E h \in Handlers : handle_inbound_stream_end(h, FALSE)
    /\ UNCHANGED stream_log

RaceSent == \E h \in Handlers : handle_inbound_sent(h)

RaceOutLogged == \E h \in Handlers : handle_inbound_out_logged(h)

RaceCountRead == \E h \in Handlers : handle_inbound_count_read(h)

RaceUpdated == \E h \in Handlers : handle_inbound_updated(h)

NextRace ==
    \/ StartOnce
    \/ StartLoaded
    \/ StartValidated
    \/ StartFailed
    \/ StartActive
    \/ AdapterBegin
    \/ DeliverAny
    \/ RaceBegin
    \/ RaceFound
    \/ RaceStored
    \/ RaceCreated
    \/ RaceLogged
    \/ RaceEngineEvent
    \/ RaceSessionUpdated
    \/ RaceStreamEnd
    \/ RaceSent
    \/ RaceOutLogged
    \/ RaceCountRead
    \/ RaceUpdated

SpecRace == Init /\ [][NextRace]_vars

(***************************************************************************)
(* Specification of the channel lifecycle: start, stop and restart calls,  *)
(* adapter crashes, and one message in flight                              *)
(***************************************************************************)
LifeStart == \E p \in Callers : start_channel(p)

LifeStop == \E p \in Callers : stop_channel(p)

LifeRestart == \E p \in Callers : restart_channel(p)

LifeAdapterStopped == \E p \in Callers : stop_channel_adapter_stopped(p)

LifeTaskDone == \E p \in Callers : stop_channel_task_done(p)

LifeStopUpdate == \E p \in Callers : stop_channel_update(p)

AdapterReturn == \E i \in DOMAIN inst_pc : run_adapter_return(i)

AdapterRaise == \E i \in DOMAIN inst_pc : run_adapter_raise(i)

AdapterCleanup == \E i \in DOMAIN inst_pc : run_adapter_cleanup(i)

LifeEngineEvent ==
    /\ handler[H1].events = 0
    /\ handle_inbound_event(H1, Assistant("hello"))
    /\ UNCHANGED stream_log

LifeStreamEnd == handle_inbound_stream_end(H1, FALSE) /\ UNCHANGED stream_log

LifeDeliver ==
    /\ Len(done_log) + Cardinality({g \in Handlers : handler[g].pc # "idle"}) < MaxLifeInbound
    /\ \E i \in DOMAIN inst_pc : deliver(i, H1)

LifeRows == {DefaultChannel, ChannelRow("slack", "open", {}, {}, DefaultRateLimit)}

InitGW == TaskManagerInit /\ \E row \in LifeRows : GatewayInit(row)

NextGW ==
    \/ LifeStart
    \/ LifeStop
    \/ LifeRestart
    \/ LifeAdapterStopped
    \/ LifeTaskDone
    \/ LifeStopUpdate
    \/ StartLoaded
    \/ StartValidated
    \/ StartFailed
    \/ StartActive
    \/ AdapterBegin
    \/ AdapterReturn
    \/ AdapterRaise
    \/ AdapterCleanup
    \/ LifeDeliver
    \/ handle_inbound_message(H1)
    \/ handle_inbound_loaded(H1)
    \/ resolve_session_found(H1)
    \/ resolve_session_stored(H1)
    \/ MsgCreated
    \/ handle_inbound_logged(H1)
    \/ LifeEngineEvent
    \/ LifeStreamEnd
    \/ handle_inbound_sent(H1)
    \/ handle_inbound_out_logged(H1)
    \/ handle_inbound_count_read(H1)
    \/ handle_inbound_updated(H1)

SpecGW == InitGW /\ [][NextGW]_vars

(***************************************************************************)
(* Specification of the rate limiter: calls of is_allowed for one sender   *)
(* with a fixed max_per_minute, while time passes                          *)
(***************************************************************************)

TickSteps == {20, 30}

Limits == (0 - 1)..MaxLimit

InitRL == TaskManagerInit /\ \E n \in Limits : GatewayInit(ChannelRow("feishu", "open", {}, {}, n))

\* lines 47-59
is_allowed_call ==
    /\ Len(rl_log) < MaxCalls
    /\ windows' = WindowsAfter(Sender, db_channels[Ch].rate_limit_per_minute, now)
    /\ rl_log' = Append(rl_log, [t |-> now, allowed |->
                         is_allowed(Sender, db_channels[Ch].rate_limit_per_minute, now)])
    /\ UNCHANGED <<tmVars, sideVars, dbVars, refVars, instVars, now, caller, msgVars, hist>>

\* time.time() advances
Tick ==
    /\ \E d \in TickSteps : now + d <= MaxNow /\ now' = now + d
    /\ UNCHANGED <<tmVars, sideVars, dbVars, refVars, instVars, windows, rl_log, caller, msgVars, hist>>

NextRL ==
    \/ is_allowed_call
    \/ Tick

SpecRL == InitRL /\ [][NextRL]_vars

(***************************************************************************)
(* Properties of the channel gateway                                       *)
(***************************************************************************)
SessionsOf(chat) == {r \in db_channel_sessions : r.chat = chat}

CallersIdle == \A p \in Callers : caller[p].pc = "idle"

NoGatewayEntry == ~Has(adapters, Ch) /\ ~Has(tasks, Ch) /\ ~Has(channel_cache, Ch)

\* C4: after a successful start_channel followed by a stop_channel that has
\* returned, the persisted status is inactive and _adapters, _tasks and
\* _channel_cache hold no entry for the channel, also while or after an
\* inbound message delivered before the stop is handled.
C4_StoppedLeavesNothing ==
    (/\ CallersIdle
     /\ Len(hist) >= 2
     /\ hist[Len(hist)] = "stop"
     /\ hist[Len(hist) - 1] = "start_ok")
    => db_channels[Ch].status = "inactive" /\ NoGatewayEntry

\* the instance created last has crashed and finished its cleanup, and no
\* start_channel or stop_channel call was made since
CrashedAndSettled ==
    /\ CallersIdle
    /\ inst_pc # << >>
    /\ inst_pc[Len(inst_pc)] = "crashed"
    /\ \E k \in 1..Len(hist) :
         /\ hist[k] = "crash"
         /\ SubSeq(hist, k + 1, Len(hist)) \in {<< >>, <<"start_ok">>}

\* C5: once adapter.start() of a running channel has raised and the crash
\* was handled, the persisted status is error and _adapters, _tasks and
\* _channel_cache hold no entry for the channel (so that a following
\* start_channel needs no stop_channel), also when the adapter fails while
\* start_channel is still persisting status active.
C5_CrashLeavesError ==
    CrashedAndSettled => db_channels[Ch].status = "error" /\ NoGatewayEntry

Replied(entry) == entry.outcome = "replied"

\* the exchange that created the ChannelSession ended with the error flag
\* set, and it is entry k of the log
FirstFailedAt(k) ==
    /\ k \in 1..Len(done_log)
    /\ Replied(done_log[k]) /\ done_log[k].created /\ done_log[k].error

\* C6: if the first exchange of a new chat ends with the error flag set, the
\* ChannelSession's message_count is still 0 afterwards, and the next
\* inbound message of the chat resolves with is_new = true and invokes the
\* engine with no resume session id.
C6_FailedFirstExchange ==
    \A k \in 1..Len(done_log) :
        FirstFailedAt(k) =>
            /\ (\A j \in (k + 1)..Len(done_log) : ~Replied(done_log[j]) \/ done_log[j].error)
                   => \A r \in SessionsOf(Chat) : r.message_count = 0
            /\ (Len(done_log) > k /\ Replied(done_log[k + 1]))
                   => done_log[k + 1].is_new /\ done_log[k + 1].resume = NoId
            /\ (Len(done_log) = k /\ handler[H1].pc \in {"log_inbound", "engine"})
                   => handler[H1].is_new
            /\ (Len(done_log) = k /\ handler[H1].pc = "engine")
                   => handler[H1].resume = NoId

\* the second message of the chat is at the engine after a failed first one
C6_Witness ==
    /\ FirstFailedAt(1)
    /\ Len(done_log) = 1
    /\ handler[H1].pc = "engine"
    /\ ~handler[H1].created
    /\ handler[H1].events > 0
    /\ \E r \in SessionsOf(Chat) : r.message_count = 0

SentFor(log, m) == SelectSeq(log, LAMBDA x : x.msg = m)

C9_Step ==
    (/\ handler[H1].pc = "update"
     /\ handler[H1].created
     /\ handler[H1].stream = Scenario
     /\ handler'[H1].pc = "idle")
    => /\ Len(SentFor(sent', handler[H1].msg)) = 1
       /\ SentFor(sent', handler[H1].msg)[1].text = "hello"
       /\ SessionsOf(Chat)' # {}
       /\ \A r \in SessionsOf(Chat)' :
              r.message_count = 2 /\ r.session_id = SdkId(1)

\* C9: for a message on a new chat of a running channel with access_mode
\* open and the sender within the limit, the engine stream [session_start s,
\* assistant t, result success] makes the gateway send exactly one outbound
\* message, with text t, and leaves the ChannelSession with
\* message_count = 2 and session_id = s.
C9_EndToEnd == [][C9_Step]_vars

\* the exchange of the scenario is about to store its counters
C9_Witness ==
    /\ handler[H1].pc = "update"
    /\ handler[H1].created
    /\ handler[H1].stream = Scenario
    /\ handler[H1].count = 2
    /\ sent = <<[msg |-> handler[H1].msg, text |-> "hello"]>>

Limit == db_channels[Ch].rate_limit_per_minute

\* C10: with an empty window at the start and max_per_minute = N >= 1, of
\* N+1 calls of is_allowed made within one 60-second window the first N
\* return true and call N+1 returns false.
C10_FirstNAllowed ==
    Limit >= 1 =>
        \A i \in 1..Len(rl_log) :
            (i <= Limit + 1 /\ rl_log[i].t - rl_log[1].t < WindowSeconds)
                => (rl_log[i].allowed <=> i <= Limit)

\* N+1 calls were made within one window while time advanced
C10_Witness ==
    /\ Limit >= 2
    /\ Len(rl_log) = Limit + 1
    /\ rl_log[Limit + 1].t - rl_log[1].t < WindowSeconds
    /\ rl_log[Limit + 1].t > rl_log[Limit].t
    /\ rl_log[Limit].t > rl_log[1].t

\* the call of is_allowed made in this step, and what it returned
IsAllowedCalled == rl_log' # rl_log
IsAllowedResult == rl_log'[Len(rl_log')].allowed

C11_Step ==
    (IsAllowedCalled /\ Limit >= 1 /\ Len(Window(Sender)) = Limit) =>
        LET w == Window(Sender)
        IN  /\ (/\ w[1] < now - WindowSeconds
                /\ \A k \in 2..Len(w) : w[k] > now - WindowSeconds)
               => /\ IsAllowedResult
                  /\ windows'[Sender] = Append(Tail(w), now)
            /\ (\A k \in 1..Len(w) : w[k] > now - WindowSeconds)
               => /\ ~IsAllowedResult
                  /\ windows'[Sender] = w

\* C11: when the window of a sender holds N admitted timestamps and time is
\* past 60 seconds after the oldest of them but not after the second oldest,
\* the next is_allowed call returns true and replaces the oldest timestamp by
\* the current time, so that the window is full again and the call after it
\* returns false; a rejected call leaves the window as it was.
C11_SlidesByOne == [][C11_Step]_vars

\* N calls were admitted, one was rejected, and after the oldest timestamp
\* left the window exactly one more call was admitted
C11_Witness ==
    /\ Limit = 2
    /\ Len(rl_log) = 5
    /\ [i \in 1..5 |-> rl_log[i].allowed] = <<TRUE, TRUE, FALSE, TRUE, FALSE>>
    /\ rl_log[4].t > rl_log[1].t + WindowSeconds
    /\ rl_log[4].t < rl_log[2].t + WindowSeconds
    /\ rl_log[5].t = rl_log[4].t
    /\ windows[Sender] = <<rl_log[2].t, rl_log[4].t>>

(***************************************************************************)
(* Specification of access control: _check_access is called for senders    *)
(* of a channel whose access fields are drawn from small sets               *)
(***************************************************************************)
Senders == {"U1", "U2", "U3"}

Listed == {"U1", "U2"}

AccessModes == {"open", "allowlist", "blocklist", "private", None}

AccessRows ==
    {ChannelRow("feishu", mode, allowed, blocked, DefaultRateLimit) :
        mode \in AccessModes, allowed \in SUBSET Listed, blocked \in SUBSET Listed}

InitAccess == TaskManagerInit /\ \E row \in AccessRows : GatewayInit(row)

\* lines 667-707: a static method; it reads its arguments only
check_access_call(sender_id) ==
    /\ Len(access_log) < MaxAccessCalls
    /\ access_log' = Append(access_log,
                            [sender |-> sender_id,
                             allowed |-> check_access(db_channels[Ch], sender_id)])
    /\ UNCHANGED <<tmVars, cleanup, status_call, bulk, stream_log, dbVars, refVars, instVars,
                   limiterVars, caller, msgVars, hist>>

NextAccess == \E sender_id \in Senders : check_access_call(sender_id)

SpecAccess == InitAccess /\ [][NextAccess]_vars

Resolved(h) ==
    handler[h].pc \in {"log_inbound", "engine", "session_update", "send",
                       "log_outbound", "count_get", "update"}

\* an earlier exchange of the chat completed without error
CompletedBefore == \E k \in 1..Len(done_log) : Replied(done_log[k]) /\ ~done_log[k].error

\* C13: _resolve_session calls made one after the other for the same
\* (channel_id, external_chat_id, external_thread_id) all return the same
\* channel_session_id and only the first creates a ChannelSession; once an
\* exchange has completed without error the stored message_count is
\* positive and the next call returns is_new = false, the stored session_id
\* and the id of the stored row.
C13_ResolveIdempotent ==
    /\ Cardinality(SessionsOf(Chat)) <= 1
    /\ \A i, j \in 1..Len(done_log) :
           (Replied(done_log[i]) /\ Replied(done_log[j]) /\ i < j) =>
               /\ done_log[j].cs_id = done_log[i].cs_id
               /\ ~done_log[j].created
    /\ \A k \in 1..Len(done_log) :
           (Replied(done_log[k]) /\ Resolved(H1)) =>
               /\ handler[H1].cs_id = done_log[k].cs_id
               /\ ~handler[H1].created
    /\ (CompletedBefore /\ handler[H1].pc = "log_inbound") =>
           /\ ~handler[H1].is_new
           /\ \A r \in SessionsOf(Chat) :
                  /\ r.message_count > 0
                  /\ handler[H1].session_id = r.session_id
                  /\ handler[H1].cs_id = r.id

\* the second call for the chat has returned, after an exchange that
\* completed without error and stored the engine's session id
C13_Witness ==
    /\ Len(done_log) = 1
    /\ Replied(done_log[1]) /\ done_log[1].created /\ ~done_log[1].error
    /\ handler[H1].pc = "log_inbound"
    /\ handler[H1].session_id = SdkId(1)
    /\ handler[H1].cs_id = done_log[1].cs_id

NoAdapterMessage == "No adapter registered for channel type"
InvalidConfigMessage == "Invalid config for channel"

\* the last call that returned was a start_channel that raised
LastStartFailed == CallersIdle /\ hist # << >> /\ hist[Len(hist)] = "start_failed"

\* C14: for a channel whose channel_type has no registered adapter, no
\* supervised unit is ever created and _adapters, _tasks and _channel_cache
\* never hold an entry for it; no start_channel succeeds; and when
\* start_channel has raised, the persisted status is error with the message
\* that names the missing adapter.
C14_NoAdapterRegistered ==
    db_channels[Ch].channel_type \notin AdapterRegistry =>
        /\ inst_pc = << >>
        /\ NoGatewayEntry
        /\ \A k \in 1..Len(hist) : hist[k] # "start_ok"
        /\ \A p \in Callers : caller[p].pc \notin {"start_validate", "start_active"}
        /\ LastStartFailed =>
               /\ db_channels[Ch].status = "error"
               /\ db_channels[Ch].error_message = NoAdapterMessage

\* start_channel was called for such a channel and has raised
C14_Witness ==
    /\ db_channels[Ch].channel_type \notin AdapterRegistry
    /\ LastStartFailed
    /\ hist = <<"start_failed">>
    /\ db_channels[Ch].status = "error"
    /\ db_channels[Ch].error_message = NoAdapterMessage

C15_Step ==
    \A p \in Callers :
        /\ (caller[p].pc = "start_validate" /\ caller'[p].pc = "start_invalid") =>
               UNCHANGED <<adapters, tasks, channel_cache, inst_pc, db_channels>>
        /\ (caller[p].pc = "start_invalid" /\ caller'[p] # caller[p]) =>
               /\ UNCHANGED <<adapters, tasks, channel_cache, inst_pc>>
               /\ db_channels'[Ch].status = "error"
               /\ db_channels'[Ch].error_message = InvalidConfigMessage
               /\ hist' = Append(hist, "start_failed")
               /\ caller'[p].pc = "idle"

C15_NotStarted ==
    \A p \in Callers :
        caller[p].pc = "start_invalid" =>
            /\ ~Has(adapters, Ch) /\ ~Has(tasks, Ch)
            /\ \A i \in DOMAIN inst_pc : inst_pc[i] \in InstDone

\* C15: when validate_config returns not-ok, start_channel creates no
\* supervised unit (adapter.start() is not called) and adds no _adapters,
\* _tasks or _channel_cache entry; it stores status error with the
\* validation message and raises.
C15_InvalidConfig == []C15_NotStarted /\ [][C15_Step]_vars

\* a start_channel on a running channel stopped it, then failed validation
C15_Witness ==
    /\ LastStartFailed
    /\ hist = <<"start_ok", "stop", "start_failed">>
    /\ db_channels[Ch].status = "error"
    /\ db_channels[Ch].error_message = InvalidConfigMessage
    /\ ~Has(adapters, Ch) /\ ~Has(tasks, Ch)

C16_Step ==
    \A p \in Callers :
        (/\ caller[p].pc = "stop_update"
         /\ caller[p].adapter = {}
         /\ caller'[p] # caller[p])
        => /\ db_channels'[Ch].status = db_channels[Ch].status
           /\ db_channels'[Ch].error_message = db_channels[Ch].error_message
           /\ UNCHANGED <<adapters, tasks, inst_pc, inst_stopped>>

\* C16: a stop_channel that found no adapter registered for the channel
\* leaves the persisted status and error_message as they were, whether the
\* status was inactive or error, and leaves _adapters, _tasks and the
\* adapter units alone.
C16_StopNotRunningNoOp == [][C16_Step]_vars

StatusChange == <<db_channels[Ch].status, db_channels'[Ch].status>>

StatusChanged == db_channels'[Ch].status # db_channels[Ch].status

SpecTransitions ==
    {<<"inactive", "active">>, <<"active", "inactive">>,
     <<"active", "error">>, <<"error", "active">>}

StartStoresActive == \E p \in Callers : caller[p].pc = "start_active" /\ caller'[p].pc = "idle"

StopStoresInactive == \E p \in Callers : caller[p].pc = "stop_update" /\ caller'[p] # caller[p]

StartStoresError ==
    \E p \in Callers :
        caller[p].pc \in {"start_no_adapter", "start_invalid"} /\ caller'[p].pc = "idle"

CrashStoresError ==
    \E i \in DOMAIN inst_pc : inst_pc[i] = "crash_update" /\ inst_pc'[i] = "crashed"

C17_Step ==
    StatusChanged =>
        /\ db_channels'[Ch].status \in {"inactive", "active", "error"}
        /\ db_channels'[Ch].status = "active" => StartStoresActive
        /\ db_channels'[Ch].status = "inactive" => StopStoresInactive
        /\ db_channels'[Ch].status = "error" => (StartStoresError \/ CrashStoresError)

IsCancelledEvent(e) == e.type = "status" /\ e.status = "cancelled"

\* a cancel_task call that found a unit returns in this step
CancelReturns == cancel_waiting' < cancel_waiting

\* the coroutine of the unit has run: it emitted at least its first event
UnitHasRun == emitted # << >>

C18_Step ==
    (CancelReturns /\ UnitHasRun) =>
        /\ run_pc = "done"
        /\ T \notin running_tasks
        /\ Has(db_tasks, T) /\ db_tasks[T].status = "cancelled"
        /\ Has(event_buffers, T) /\ event_buffers[T] # << >>
        /\ IsCancelledEvent(event_buffers[T][Len(event_buffers[T])])

\* C18: when a cancel_task call on a task whose unit is running or paused
\* returns, the unit has unwound and is no longer in _running_tasks, the
\* persisted status is cancelled and the last buffered event is the status
\* event cancelled.  (A cancel_task call on a task without unit returns at
\* line 359 before it touches anything: the second branch of
\* cancel_task_call.)
C18_CancelMarksCancelled == [][C18_Step]_vars

(***************************************************************************)
(* Specification of task deletion: one task whose engine stream produces   *)
(* events, completes or raises, one subscriber, and one delete_task call   *)
(***************************************************************************)
DelEventTypes == {"assistant", "result"}

DelEngineEvent == EngineBudget /\ \E ty \in DelEventTypes : run_task_event(ty)

NextDel ==
    \/ create_task
    \/ run_task_begin
    \/ run_task_running
    \/ DelEngineEvent
    \/ run_task_completed
    \/ run_task_stream_end
    \/ run_task_raise
    \/ run_task_exc_failed
    \/ run_task_cancelled
    \/ run_task_mark_cancelled
    \/ Subscribe
    \/ SubscribeNextBuffered
    \/ SubscribeQueueGet
    \/ SubscribeNextLive
    \/ delete_task_call
    \/ delete_task_unit_done
    \/ delete_task_deleted

SpecDel == Init /\ [][NextDel]_vars

\* the events a subscription got or still holds
HoldsCancelled(s) == \E i \in 1..Len(Pending(s)) : IsCancelledEvent(Pending(s)[i])

C19_Step ==
    /\ (del_pc = "await_delete" /\ del_pc' = "returned") =>
           /\ run_pc' \in {"none", "done"}
           /\ T \notin running_tasks'
           /\ ~Has(event_buffers', T)
           /\ ~Has(subscribers', T)
           /\ ~Has(message_queues', T)
           /\ ~Has(db_tasks', T)
    /\ (del_pc = "await_unit" /\ del_pc' = "await_delete") =>
           \A s \in Subs :
               (Has(subscribers, T) /\ InSeq(subscribers[T], s)) => HoldsCancelled(s)

\* C19: when delete_task returns, the task has no execution unit, no event
\* buffer, no subscriber set, no message queue and no persisted row; and when
\* delete_task had to cancel the task first, every subscriber attached when
\* the subscriber set is discarded has been handed the cancelled status
\* event.
C19_DeleteLeavesNothing == [][C19_Step]_vars

(***************************************************************************)
(* Specification of send_message: one task that may ask a question, inputs *)
(* sent to it, and one delete_task call                                    *)
(***************************************************************************)
SendEventTypes == {"ask_user_question", "result"}

SendEngineEvent == EngineBudget /\ \E ty \in SendEventTypes : run_task_event(ty)

SendPendingEvent == EngineBudget /\ \E ty \in SendEventTypes : pending_event(ty)

NextSend ==
    \/ create_task
    \/ run_task_begin
    \/ run_task_running
    \/ SendEngineEvent
    \/ run_task_completed
    \/ run_task_stream_end
    \/ run_task_cancelled
    \/ run_task_mark_cancelled
    \/ pending_get_message
    \/ pending_resume
    \/ SendPendingEvent
    \/ pending_completed
    \/ pending_stream_end
    \/ send_message_call
    \/ send_message_resume
    \/ delete_task_call
    \/ delete_task_unit_done
    \/ delete_task_deleted

SpecSend == Init /\ [][NextSend]_vars

\* the task has a message queue and its persisted status is running
Sendable ==
    /\ Has(message_queues, T)
    /\ Has(db_tasks, T) /\ db_tasks[T].status = "running"

C20_Step ==
    /\ (send_pc = "idle" /\ send_result' # send_result /\ send_pc' = "idle") =>
           /\ ~Has(message_queues, T)
           /\ send_result' = "False"
           /\ message_queues' = message_queues
    /\ (send_pc = "await_task_get" /\ send_pc' = "idle") =>
           IF Sendable
           THEN /\ send_result' = "True"
                /\ message_queues' = [message_queues EXCEPT ![T] = Append(@, send_count)]
           ELSE /\ send_result' = "False"
                /\ message_queues' = message_queues

\* C20: send_message returns true and enqueues the input exactly when the
\* task has a message queue and its persisted status is running; in every
\* other case (unknown task, status pending, completed, failed or cancelled)
\* it returns false and enqueues nothing; its only suspension is the read
\* of the task row, never the task's consumption of the input.
C20_SendIffRunning ==
    /\ [][C20_Step]_vars
    /\ [](send_pc = "await_task_get" => ENABLED send_message_resume)

(***************************************************************************)
(* Properties of handle_inbound_message, continued                         *)
(***************************************************************************)
\* the exchanges of ChannelSession id that finished without the error flag
CleanExchanges(id) ==
    {k \in 1..Len(done_log) :
        Replied(done_log[k]) /\ ~done_log[k].error /\ done_log[k].cs_id = id}

\* C21: for one ChannelSession, after k exchanges have finished without the
\* error flag its message_count equals 2k, also when the handling of two
\* inbound messages of the same external chat overlaps, both reading
\* message_count before either writes it.
C21_CountIsTwiceExchanges ==
    \A r \in db_channel_sessions :
        r.message_count = 2 * Cardinality(CleanExchanges(r.id))

(***************************************************************************)
(* ChannelGateway.get_channel_status                                       *)
(*                                                                         *)
(* A call of the persisted store either returns or raises; fails says      *)
(* which.                                                                  *)
(***************************************************************************)
\* lines 237-249: entry up to the first await, which is the row lookup of
\* line 243 when no adapter is registered and the session count otherwise
get_channel_status ==
    /\ status_call.pc \in {"idle", "returned", "raised"}
    /\ status_call.calls < MaxStatusCalls
    /\ status_call' = [IdleStatusCall EXCEPT
                         !.calls = status_call.calls + 1,
                         !.is_running = Has(adapters, Ch),
                         !.status = IF Has(adapters, Ch) THEN "active" ELSE "",
                         !.pc = IF Has(adapters, Ch) THEN "count" ELSE "get_status"]
    /\ UNCHANGED <<tmVars, cleanup, access_log, bulk, stream_log, dbVars, refVars, instVars,
                   limiterVars, caller, msgVars, hist>>

\* lines 243-249: db.channels.get has returned the row, or has raised, which
\* ends the call with the exception
get_channel_status_loaded(fails) ==
    /\ status_call.pc = "get_status"
    /\ status_call' =
           IF fails
           THEN [status_call EXCEPT !.pc = "raised", !.failed = @ \cup {"status"}]
           ELSE [status_call EXCEPT !.pc = "count", !.status = db_channels[Ch].status]
    /\ UNCHANGED <<tmVars, cleanup, access_log, bulk, stream_log, dbVars, refVars, instVars,
                   limiterVars, caller, msgVars, hist>>

\* lines 249-259: count_by_channel has returned or raised (lines 250-251 keep
\* the default 0); the cached row gives error_message, else the row is
\* looked up when no adapter was registered
get_channel_status_counted(fails) ==
    /\ status_call.pc = "count"
    /\ status_call' =
           [status_call EXCEPT
              !.active_sessions = IF fails THEN 0 ELSE Cardinality(db_channel_sessions),
              !.failed = IF fails THEN @ \cup {"count"} ELSE @,
              !.error_message = IF Has(channel_cache, Ch)
                                THEN channel_cache[Ch].error_message ELSE None,
              !.pc = IF Has(channel_cache, Ch) \/ status_call.is_running
                     THEN "returned" ELSE "get_error"]
    /\ UNCHANGED <<tmVars, cleanup, access_log, bulk, stream_log, dbVars, refVars, instVars,
                   limiterVars, caller, msgVars, hist>>

\* lines 259-270: db.channels.get has returned the row, or has raised, which
\* ends the call with the exception
get_channel_status_error_loaded(fails) ==
    /\ status_call.pc = "get_error"
    /\ status_call' =
           IF fails
           THEN [status_call EXCEPT !.pc = "raised", !.failed = @ \cup {"error_message"}]
           ELSE [status_call EXCEPT !.pc = "returned",
                                    !.error_message = db_channels[Ch].error_message]
    /\ UNCHANGED <<tmVars, cleanup, access_log, bulk, stream_log, dbVars, refVars, instVars,
                   limiterVars, caller, msgVars, hist>>

(***************************************************************************)
(* Specification of get_channel_status: status calls while the channel is  *)
(* started and stopped                                                     *)
(***************************************************************************)
StatusLoaded == \E fails \in BOOLEAN : get_channel_status_loaded(fails)

StatusCounted == \E fails \in BOOLEAN : get_channel_status_counted(fails)

StatusErrorLoaded == \E fails \in BOOLEAN : get_channel_status_error_loaded(fails)

NextStatus ==
    \/ LifeStart
    \/ LifeStop
    \/ LifeAdapterStopped
    \/ LifeTaskDone
    \/ LifeStopUpdate
    \/ StartLoaded
    \/ StartValidated
    \/ StartFailed
    \/ StartActive
    \/ AdapterBegin
    \/ get_channel_status
    \/ StatusLoaded
    \/ StatusCounted
    \/ StatusErrorLoaded

SpecStatus == InitGW /\ [][NextStatus]_vars

\* C22: get_channel_status never propagates a failure of the persisted
\* store: when a lookup it performs (session count, channel row for status or
\* for error_message) fails, it still returns a result, with active_sessions
\* 0 and error_message None as defaults.
C22_StatusNeverRaises ==
    /\ status_call.pc # "raised"
    /\ (status_call.pc = "returned" /\ "count" \in status_call.failed)
           => status_call.active_sessions = 0
    /\ (status_call.pc = "returned" /\ "error_message" \in status_call.failed)
           => status_call.error_message = None

(***************************************************************************)
(* ChannelGateway.startup and ChannelGateway.shutdown                      *)
(*                                                                         *)
(* The loops are studied over several channels: bulk.stored is the         *)
(* persisted status of each, bulk.registered the keys of _adapters.  A     *)
(* start_channel or stop_channel call made by a loop either returns or     *)
(* raises an Exception; raises says which.                                 *)
(***************************************************************************)
BulkChannels == {"c1", "c2", "c3"}

\* the orders in which a list can hold the members of S
Orders(S) ==
    {q \in [1..Cardinality(S) -> S] : \A i, j \in DOMAIN q : i # j => q[i] # q[j]}

\* lines 95-98: load_adapters(), then the call suspends on db.channels.list()
startup ==
    /\ bulk.pc = "idle"
    /\ bulk' = [bulk EXCEPT !.pc = "list", !.op = "startup"]
    /\ UNCHANGED <<tmVars, cleanup, access_log, status_call, stream_log, dbVars, refVars, instVars,
                   limiterVars, caller, msgVars, hist>>

\* lines 98-104: the rows have arrived; the active ones are kept and the loop
\* suspends in the first start_channel, or startup returns when there is none
startup_listed ==
    /\ bulk.pc = "list"
    /\ LET active_channels == {c \in BulkChannels : bulk.stored[c] = "active"}
       IN \E q \in Orders(active_channels) :
              bulk' = [bulk EXCEPT !.targets = active_channels, !.todo = q,
                                   !.pc = IF q = << >> THEN "returned" ELSE "loop"]
    /\ UNCHANGED <<tmVars, cleanup, access_log, status_call, stream_log, dbVars, refVars, instVars,
                   limiterVars, caller, msgVars, hist>>

\* mutant: the exception of start_channel leaves the loop
startup_next_NoCatch(raises) ==
    /\ bulk.pc = "loop" /\ bulk.op = "startup"
    /\ LET ch == Head(bulk.todo)
       IN bulk' = [bulk EXCEPT
                     !.attempted = Append(@, ch),
                     !.failed = IF raises THEN @ \cup {ch} ELSE @,
                     !.stored = [@ EXCEPT ![ch] = IF raises THEN "error" ELSE "active"],
                     !.registered = IF raises THEN @ ELSE @ \cup {ch},
                     !.todo = Tail(@),
                     !.pc = IF raises THEN "raised"
                            ELSE IF Tail(bulk.todo) = << >> THEN "returned" ELSE "loop"]
    /\ UNCHANGED <<tmVars, cleanup, access_log, status_call, stream_log, dbVars, refVars, instVars,
                   limiterVars, caller, msgVars, hist>>

\* lines 102-106: one pass of the loop; start_channel(ch) has returned, with
\* the adapter registered and status active stored, or has raised after
\* storing status error, which is logged
startup_next(raises) ==
    /\ bulk.pc = "loop" /\ bulk.op = "startup"
    /\ LET ch == Head(bulk.todo)
       IN bulk' = [bulk EXCEPT
                     !.attempted = Append(@, ch),
                     !.failed = IF raises THEN @ \cup {ch} ELSE @,
                     !.stored = [@ EXCEPT ![ch] = IF raises THEN "error" ELSE "active"],
                     !.registered = IF raises THEN @ ELSE @ \cup {ch},
                     !.todo = Tail(@),
                     !.pc = IF Tail(bulk.todo) = << >> THEN "returned" ELSE "loop"]
    /\ UNCHANGED <<tmVars, cleanup, access_log, status_call, stream_log, dbVars, refVars, instVars,
                   limiterVars, caller, msgVars, hist>>

\* lines 117-119: the rate limiter and the row cache are emptied
ShutdownClears == windows' = << >> /\ channel_cache' = << >>

\* lines 110-114: the keys of _adapters are copied and the loop suspends in
\* the first stop_channel; with no key the call runs to its end
shutdown ==
    /\ bulk.pc = "idle"
    /\ \E q \in Orders(bulk.registered) :
           bulk' = [bulk EXCEPT !.op = "shutdown", !.targets = bulk.registered,
                                !.todo = q,
                                !.pc = IF q = << >> THEN "returned" ELSE "loop"]
    /\ IF bulk.registered = {}
       THEN ShutdownClears
       ELSE UNCHANGED <<windows, channel_cache>>
    /\ UNCHANGED <<tmVars, cleanup, access_log, status_call, stream_log, dbVars, adapters, tasks,
                   instVars, now, rl_log, caller, msgVars, hist>>

\* lines 112-119: one pass of the loop; stop_channel(channel_id) has dropped
\* the adapter and returned after storing status inactive, or has raised,
\* which is logged; after the last pass the call runs to its end
shutdown_next(raises) ==
    /\ bulk.pc = "loop" /\ bulk.op = "shutdown"
    /\ LET channel_id == Head(bulk.todo)
       IN bulk' = [bulk EXCEPT
                     !.attempted = Append(@, channel_id),
                     !.failed = IF raises THEN @ \cup {channel_id} ELSE @,
                     !.stored = [@ EXCEPT ![channel_id] = IF raises THEN @ ELSE "inactive"],
                     !.registered = @ \ {channel_id},
                     !.todo = Tail(@),
                     !.pc = IF Tail(bulk.todo) = << >> THEN "returned" ELSE "loop"]
    /\ IF Tail(bulk.todo) = << >>
       THEN ShutdownClears
       ELSE UNCHANGED <<windows, channel_cache>>
    /\ UNCHANGED <<tmVars, cleanup, access_log, status_call, stream_log, dbVars, adapters, tasks,
                   instVars, now, rl_log, caller, msgVars, hist>>

(***************************************************************************)
(* Specification of startup and shutdown: one call over three channels     *)
(***************************************************************************)
ChannelStatuses == {"active", "inactive", "error"}

\* an adapter is registered before status active is stored (lines 191-194)
\* and may outlive a crash (C5), so every status goes with either
InitBulk ==
    /\ TaskManagerInit
    /\ GatewayCore(DefaultChannel)
    /\ \E st \in [BulkChannels -> ChannelStatuses], reg \in SUBSET BulkChannels :
           bulk = [NoBulk EXCEPT !.stored = st, !.registered = reg]

StartupNext == \E raises \in BOOLEAN : startup_next(raises)

ShutdownNext == \E raises \in BOOLEAN : shutdown_next(raises)

NextBulk ==
    \/ startup
    \/ startup_listed
    \/ StartupNext
    \/ shutdown
    \/ ShutdownNext

SpecBulk == InitBulk /\ [][NextBulk]_vars

Range(q) == {q[i] : i \in DOMAIN q}

\* the loop takes the channels it has to handle when it starts
C23_Targets ==
    /\ (bulk.pc = "list" /\ bulk'.pc # "list")
           => bulk'.targets = {c \in BulkChannels : bulk.stored[c] = "active"}
    /\ (bulk.pc = "idle" /\ bulk'.op = "shutdown")
           => bulk'.targets = bulk.registered

\* every channel taken is attempted once by the time the call returns, and
\* the call never ends with an exception
C23_AllAttempted ==
    /\ bulk.pc # "raised"
    /\ bulk.pc = "returned"
           => /\ Range(bulk.attempted) = bulk.targets
              /\ Len(bulk.attempted) = Cardinality(bulk.targets)
    /\ bulk.failed \subseteq Range(bulk.attempted)

\* C23: startup attempts start_channel for every channel whose persisted
\* status is active and shutdown attempts stop_channel for every channel
\* registered in _adapters; an exception raised by starting or stopping one
\* channel does not prevent the attempt for any other channel, and neither
\* startup nor shutdown raises because of it.
C23_BulkIsolatesFailures == []C23_AllAttempted /\ [][C23_Targets]_vars

\* startup has returned after three attempts, the first of which failed
C23_Witness ==
    /\ bulk.pc = "returned" /\ bulk.op = "startup"
    /\ Len(bulk.attempted) = 3
    /\ bulk.attempted[1] \in bulk.failed
    /\ bulk.attempted[3] \notin bulk.failed

\* the row the gateway uses for the channel: the cached one, else the stored
RowInUse == IF Has(channel_cache, Ch) THEN channel_cache[Ch] ELSE db_channels[Ch]

\* the sender is not admitted by the channel's access settings
Denied(row) ==
    \/ row.access_mode = "allowlist" /\ Sender \notin row.allowed_senders
    \/ row.access_mode = "blocklist" /\ Sender \in row.blocked_senders
    \/ row.access_mode \notin {"open", "allowlist", "blocklist"}

\* what a call of a denied sender must leave alone
C24_Step ==
    \A h \in Handlers :
        (/\ handler[h].pc \in {"scheduled", "load"}
         /\ handler'[h] # handler[h]
         /\ Denied(RowInUse'))
        => /\ handler'[h] = IdleHandler
           /\ UNCHANGED <<sent, windows, rl_log, db_channel_sessions,
                          db_channel_messages, uuid>>

\* on a channel that denies the sender no call gets past the access check
C24_NothingPastAccess ==
    Denied(db_channels[Ch]) =>
        /\ \A h \in Handlers : handler[h].pc \in {"idle", "scheduled", "load"}
        /\ sent = << >> /\ windows = << >> /\ rl_log = << >>
        /\ db_channel_sessions = {} /\ db_channel_messages = << >>

\* C24: when _check_access denies the sender, handle_inbound_message has no
\* further effect: no message is sent through the adapter, the sender's
\* rate-limiter window is unchanged, no session or ChannelSession is created
\* or updated, no audit record is written and the agent engine is not
\* invoked.
C24_DeniedNoEffect == []C24_NothingPastAccess /\ [][C24_Step]_vars

\* two messages of a blocked sender were dropped by a running channel
C24_Witness ==
    /\ Denied(db_channels[Ch])
    /\ Has(adapters, Ch)
    /\ Len(done_log) = 2
    /\ \A k \in 1..2 : done_log[k].outcome = "dropped"

(***************************************************************************)
(* Specification of rate-limited messages: a channel that admits one       *)
(* message per minute is started, receives messages and may be stopped     *)
(* while a message is in flight                                            *)
(***************************************************************************)
InitNotice == TaskManagerInit /\ GatewayInit(ChannelRow("feishu", "open", {}, {}, 1))

NoticeDeliver ==
    /\ Len(done_log) + Cardinality({g \in Handlers : handler[g].pc # "idle"})
           < MaxNoticeInbound
    /\ \E i \in DOMAIN inst_pc : deliver(i, H1)

NextNotice ==
    \/ StartOnce
    \/ StartLoaded
    \/ StartValidated
    \/ StartFailed
    \/ StartActive
    \/ AdapterBegin
    \/ LifeStop
    \/ LifeAdapterStopped
    \/ LifeTaskDone
    \/ LifeStopUpdate
    \/ NoticeDeliver
    \/ handle_inbound_message(H1)
    \/ handle_inbound_loaded(H1)
    \/ handle_inbound_notice(H1)
    \/ resolve_session_found(H1)
    \/ resolve_session_stored(H1)
    \/ MsgCreated
    \/ handle_inbound_logged(H1)
    \/ LifeEngineEvent
    \/ LifeStreamEnd
    \/ handle_inbound_sent(H1)
    \/ handle_inbound_out_logged(H1)
    \/ handle_inbound_count_read(H1)
    \/ handle_inbound_updated(H1)

SpecNotice == InitNotice /\ [][NextNotice]_vars

\* is_allowed has just returned false
Rejected == rl_log' # rl_log /\ ~rl_log'[Len(rl_log')].allowed

NoticeOf(h) == [msg |-> handler[h].msg, text |-> RateLimitNotice]

\* the step in which the limiter rejects: the call suspends in the send of
\* the notice if an adapter is registered and returns otherwise
C25_RejectStep ==
    \A h \in Handlers :
        (handler'[h] # handler[h] /\ Rejected)
        => /\ handler'[h].pc = IF Has(adapters, Ch) THEN "notice" ELSE "idle"
           /\ UNCHANGED <<sent, db_channel_sessions, db_channel_messages, uuid>>

\* the step after the send of the notice: sent or not, the call returns
C25_NoticeStep ==
    \A h \in Handlers :
        (handler[h].pc = "notice" /\ handler'[h] # handler[h])
        => /\ handler'[h] = IdleHandler
           /\ sent' \in {sent, Append(sent, NoticeOf(h))}
           /\ UNCHANGED <<db_channel_sessions, db_channel_messages, uuid>>

\* C25: when the rate limiter rejects an inbound message,
\* handle_inbound_message sends at most one notice through the channel's
\* adapter (none if no adapter is registered), swallows any failure of that
\* send, and then drops the message: no ChannelSession is created or
\* updated, no audit record is written and the agent engine is not invoked.
C25_RejectedOnlyNotice == [][C25_RejectStep /\ C25_NoticeStep]_vars

\* the second message within the minute was answered by the notice alone
C25_Witness ==
    /\ Len(done_log) = 2
    /\ done_log[1].outcome = "replied"
    /\ done_log[2].outcome = "limited"
    /\ SentFor(sent, done_log[2].msg) = <<[msg |-> done_log[2].msg, text |-> RateLimitNotice]>>
    /\ Len(db_channel_messages) = 2

\* the limiter rejected a message while no adapter was registered
C25_NoAdapterReached ==
    /\ Len(done_log) = 2
    /\ done_log[2].outcome = "limited"
    /\ SentFor(sent, done_log[2].msg) = << >>
    /\ hist = <<"start_ok">>
    /\ ~Has(adapters, Ch)

\* the engine has been invoked and has not produced an event yet
JustInvoked(h) == handler[h].pc = "engine" /\ handler[h].events = 0

\* what _resolve_session hands back for an existing row
C26_ResolveStep ==
    \A h \in Handlers :
        (handler[h].pc = "find" /\ handler'[h].pc = "log_inbound")
        => \E r \in FindByExternal(Chat) :
               /\ handler'[h].cs_id = r.id
               /\ handler'[h].session_id = r.session_id
               /\ handler'[h].is_new = ~(r.message_count > 0)

\* the session id passed to run_conversation
C26_InvokeStep ==
    \A h \in Handlers :
        (handler[h].pc = "log_inbound" /\ handler'[h].pc = "engine")
        => handler'[h].resume = IF handler[h].is_new THEN NoId
                                ELSE handler[h].session_id

\* when messages are handled one after the other the row is as it was when
\* the session was resolved
C26_ResumeMatchesRow ==
    \A h \in Handlers :
        JustInvoked(h) =>
            \E r \in FindByExternal(Chat) :
                /\ r.id = handler[h].cs_id
                /\ handler[h].resume = IF r.message_count > 0 THEN r.session_id
                                       ELSE NoId

\* C26: handle_inbound_message invokes the agent engine with session_id
\* equal to the ChannelSession's stored session_id if and only if that
\* ChannelSession's message_count was greater than 0 when the session was
\* resolved; otherwise (newly created, or existing with message_count 0) it
\* passes no session id.
C26_ResumeIffCounted ==
    []C26_ResumeMatchesRow /\ [][C26_ResolveStep /\ C26_InvokeStep]_vars

\* the second message of a chat resumes the session the engine assigned
C26_Witness ==
    /\ JustInvoked(H1)
    /\ handler[H1].resume = SdkId(1)
    /\ \E r \in FindByExternal(Chat) : r.message_count = 2 /\ r.session_id = SdkId(1)

\* the stored ChannelSession of the exchange handled by h
RowOf(h) == {r \in db_channel_sessions : r.id = handler[h].cs_id}

AfterInvoke == {"engine", "send", "log_outbound", "count_get", "update"}

\* whenever the exchange can consume an engine event, or has stopped
\* consuming them, the stored session_id is the one the exchange holds: the
\* resolved one, or the last one a session_start event assigned
C27_Persisted ==
    \A h \in Handlers :
        handler[h].pc \in AfterInvoke =>
            /\ RowOf(h) # {}
            /\ \A r \in RowOf(h) : r.session_id = handler[h].session_id

\* a session_start with another id suspends the exchange on the store, and
\* no event is consumed until the id is stored; the final update keeps it
C27_Step ==
    \A h \in Handlers :
        /\ (/\ handler[h].pc = "engine"
            /\ handler'[h].session_id # handler[h].session_id)
               => handler'[h].pc = "session_update"
        /\ (handler[h].pc = "session_update" /\ handler'[h] # handler[h])
               => /\ handler'[h].events = handler[h].events
                  /\ \A r \in RowOf(h)' : r.session_id = handler[h].session_id
        /\ (handler[h].pc = "update" /\ handler'[h] # handler[h])
               => \A r \in {x \in db_channel_sessions' : x.id = handler[h].cs_id} :
                      r.session_id = handler[h].session_id

\* C27: when the engine emits session_start with a sessionId s different
\* from the current session id, the ChannelSession's persisted session_id is
\* s before the next engine event is consumed, and it stays s if the
\* exchange subsequently errors or the stream raises.
C27_SessionIdPersisted == []C27_Persisted /\ [][C27_Step]_vars

\* the stream raised after session_start; the exchange is about to finish
C27_Witness ==
    /\ handler[H1].pc = "update"
    /\ handler[H1].error
    /\ handler[H1].reply_text = ExceptionReply
    /\ handler[H1].session_id = SdkId(1)
    /\ \E r \in RowOf(H1) : r.session_id = SdkId(1) /\ r.message_count = 0

(***************************************************************************)
(* Specification of the reply: one message on a running channel, with      *)
(* every engine stream of up to MaxReplyStream events recorded in          *)
(* stream_log                                                              *)
(***************************************************************************)
ReplyEvents == GwEvents \cup {Assistant("bye")}

ReplyDeliver ==
    /\ done_log = << >>
    /\ \A g \in Handlers : handler[g].pc = "idle"
    /\ \E i \in DOMAIN inst_pc : deliver(i, H1)

ReplyEngineEvent ==
    /\ Len(stream_log) < MaxReplyStream
    /\ \E e \in ReplyEvents :
           handle_inbound_event(H1, e) /\ stream_log' = Append(stream_log, e)

ReplyStreamEnd ==
    \E raised \in BOOLEAN :
        /\ handle_inbound_stream_end(H1, raised)
        /\ stream_log' = Append(stream_log, IF raised THEN StreamRaised ELSE StreamEnded)

NextReply ==
    \/ StartOnce
    \/ StartLoaded
    \/ StartValidated
    \/ StartFailed
    \/ StartActive
    \/ AdapterBegin
    \/ ReplyDeliver
    \/ handle_inbound_message(H1)
    \/ resolve_session_found(H1)
    \/ resolve_session_stored(H1)
    \/ MsgCreated
    \/ handle_inbound_logged(H1)
    \/ ReplyEngineEvent
    \/ handle_inbound_session_updated(H1)
    \/ ReplyStreamEnd
    \/ handle_inbound_sent(H1)
    \/ handle_inbound_out_logged(H1)
    \/ handle_inbound_count_read(H1)
    \/ handle_inbound_updated(H1)

SpecReply == Init /\ [][NextReply]_vars

\* the assistant events of the stream that carried text
Spoken(log) == SelectSeq(log, LAMBDA e : e.type = "assistant" /\ e.text # "")

\* the events of the stream that report an engine error
Errors(log) ==
    SelectSeq(log, LAMBDA e : e.type = "error"
                              \/ (e.type = "result" /\ e.subtype = "error_during_execution"))

ErrorReplies == {ResultErrorReply, ErrorEventReply}

StreamIsOver == stream_log # << >> /\ stream_log[Len(stream_log)].type \in {"end", "raise"}

\* the reply the stream calls for
C28_Expected ==
    IF stream_log[Len(stream_log)].type = "raise" THEN {ExceptionReply}
    ELSE IF Spoken(stream_log) # << >>
         THEN {Spoken(stream_log)[Len(Spoken(stream_log))].text}
    ELSE IF Errors(stream_log) # << >> THEN ErrorReplies
    ELSE {NoResponseReply}

\* C28: for every inbound message that reaches agent invocation the outbound
\* reply text is never empty: it is the text of the last assistant event
\* that carried non-empty text when the stream did not raise and such an
\* event exists; an engine error reply is used only if no assistant text was
\* produced; a generic apology replaces any text if the stream raised; and
\* the placeholder "(No response generated)" is used if nothing else
\* produced text.
C28_ReplyNeverEmpty ==
    /\ StreamIsOver =>
           /\ handler[H1].pc \in {"send", "log_outbound", "count_get", "update", "idle"}
           /\ handler[H1].pc # "idle" =>
                  /\ handler[H1].reply_text # ""
                  /\ handler[H1].reply_text \in C28_Expected
    /\ \A k \in 1..Len(sent) : sent[k].text # ""
    /\ \A k \in 1..Len(db_channel_messages) :
           db_channel_messages[k].direction = "outbound"
               => /\ db_channel_messages[k].content # ""
                  /\ db_channel_messages[k].content \in C28_Expected

\* an error event came first and two assistant texts after it; the last text
\* was sent
C28_Witness ==
    /\ stream_log = <<EngineError, Assistant("hello"), Assistant("bye"), StreamEnded>>
    /\ sent = <<[msg |-> 1, text |-> "bye"]>>
    /\ handler[H1].pc = "log_outbound"

\* the outbound audit row is written with the status the error flag gives
C29_AuditStep ==
    \A h \in Handlers :
        (handler[h].pc = "log_outbound" /\ handler'[h] # handler[h])
        => /\ Len(db_channel_messages') = Len(db_channel_messages) + 1
           /\ LET row == db_channel_messages'[Len(db_channel_messages')]
              IN /\ row.direction = "outbound"
                 /\ row.channel_session_id = handler[h].cs_id
                 /\ row.status = IF handler[h].error THEN "error" ELSE "sent"
           /\ handler'[h].error = handler[h].error

\* the final update adds 2 to message_count exactly when the error flag is
\* not set, and stamps last_message_at in both cases
C29_UpdateStep ==
    \A h \in Handlers :
        (handler[h].pc = "update" /\ handler'[h] # handler[h])
        => \A r \in RowOf(h) :
               \E q \in db_channel_sessions' :
                   /\ q.id = r.id
                   /\ q.last_message_at = handler[h].msg
                   /\ q.message_count = IF handler[h].error THEN r.message_count
                                        ELSE r.message_count + 2

\* the flag is settled when the reply is handed to the adapter, whether or
\* not there is an adapter and whether or not the send succeeds
C29_FlagStep ==
    \A h \in Handlers :
        (handler[h].pc \in {"send", "count_get"} /\ handler'[h] # handler[h])
        => handler'[h].error = handler[h].error

\* C29: for every exchange that reaches the send step, the outbound audit
\* record has status sent if and only if the session's message_count is
\* incremented by 2 in that exchange, and status error if and only if
\* message_count is left unchanged; both depend only on the exchange's error
\* flag, not on whether an adapter was registered or adapter.send_message
\* succeeded; last_message_at is updated in both cases.
C29_AuditMatchesCount == [][C29_AuditStep /\ C29_UpdateStep /\ C29_FlagStep]_vars

(***************************************************************************)
(* Specification of the execution unit: one task with its subscribers,     *)
(* messages and cancellation, and every engine stream of up to             *)
(* MaxUnitEvents events                                                    *)
(***************************************************************************)
UnitBudget == Len(emitted) < MaxUnitEvents

UnitEngineEvent == UnitBudget /\ \E ty \in EngineEventTypes : run_task_event(ty)

UnitPendingEvent == UnitBudget /\ \E ty \in EngineEventTypes : pending_event(ty)

NextUnit ==
    \/ create_task
    \/ run_task_begin
    \/ run_task_running
    \/ UnitEngineEvent
    \/ run_task_session_id
    \/ run_task_failed
    \/ run_task_completed
    \/ run_task_stream_end
    \/ run_task_raise
    \/ run_task_exc_failed
    \/ run_task_cancelled
    \/ run_task_mark_cancelled
    \/ pending_get_message
    \/ pending_resume
    \/ UnitPendingEvent
    \/ pending_failed
    \/ pending_completed
    \/ pending_stream_end
    \/ Subscribe
    \/ SubscribeNextBuffered
    \/ SubscribeQueueGet
    \/ SubscribeNextLive
    \/ send_message_call
    \/ send_message_resume
    \/ cancel_task_call
    \/ cancel_task_return

SpecUnit == Init /\ [][NextUnit]_vars

(***************************************************************************)
(* Properties of the execution unit                                        *)
(***************************************************************************)
ConsumingEngine == {"await_engine", "await_resumed"}

LastEmitted == emitted[Len(emitted)]

\* no engine event follows a result or error event; what may follow is the
\* status event of a cancellation that arrived during the final update
C30_NoFurtherEvents ==
    \A i, j \in 1..Len(emitted) :
        (i < j /\ emitted[i].type \in {"result", "error"})
            => emitted[j].type = "status" /\ emitted[j].status = "cancelled"

\* a unit that ended without having been cancelled
C30_Final ==
    (run_pc = "done" /\ cancel_calls = 0 /\ emitted # << >>) =>
        /\ LastEmitted.type = "result" => db_tasks[T].status = "completed"
        /\ LastEmitted.type = "error"
               => db_tasks[T].status = "failed" /\ db_tasks[T].error # None

C30_Step ==
    \* a result or error event suspends the unit on the final update
    /\ (run_pc \in ConsumingEngine /\ emitted' # emitted)
           => /\ LastEmitted'.type = "result"
                     => run_pc' \in {"await_completed", "await_completed_resumed"}
              /\ LastEmitted'.type = "error"
                     => run_pc' \in {"await_failed", "await_failed_resumed"}
    \* which stores the status, and for an error event its payload
    /\ (run_pc \in {"await_completed", "await_completed_resumed"} /\ run_pc' = "done")
           => db_tasks'[T].status = "completed" /\ emitted' = emitted
    /\ (run_pc \in {"await_failed", "await_failed_resumed"} /\ run_pc' = "done")
           => /\ db_tasks'[T].status = "failed" /\ db_tasks'[T].error = "event"
              /\ emitted' = emitted
    \* an exception of the engine call: status failed, error event emitted
    /\ (run_pc = "await_exc_failed" /\ run_pc' = "done" /\ ~run_cancel)
           => /\ db_tasks'[T].status = "failed" /\ db_tasks'[T].error = "exception"
              /\ Len(emitted') = Len(emitted) + 1
              /\ LastEmitted'.type = "error"
              /\ event_buffers'[T] = Append(event_buffers[T], LastEmitted')
              /\ \A q \in Subs :
                     InSeq(subscribers[T], q) => queues'[q] = Append(queues[q], LastEmitted')

PausePcs == {"await_resumed", "await_failed_resumed", "await_completed_resumed"}

\* the unit is unwinding from a cancellation or from an exception of the engine
Unwinding == {"await_cancelled", "await_exc_failed"}

\* a message is taken: it becomes the input of the next invocation, together
\* with the session id captured by _run_task
C31_TakeStep ==
    (run_pc = "await_message" /\ run_pc' = "await_task_get") =>
        /\ run_inputs' = Append(run_inputs, [msg |-> Head(message_queues[T]),
                                             session_id |-> run_sid])
        /\ message_queues'[T] = Tail(message_queues[T])
        /\ run_sid = IF \E i \in 1..Len(emitted) : emitted[i].type = "session_start"
                     THEN "sdk" ELSE None

\* the message taken is followed by one invocation of the engine
C31_InvokeStep ==
    (run_pc = "await_task_get" /\ run_pc' \notin {"await_task_get"} \cup Unwinding) =>
        /\ run_pc' = "await_resumed"
        /\ run_inputs' = run_inputs

\* an invocation that asked a question leaves the loop waiting for a message
C31_AskStep ==
    (run_pc \in PausePcs /\ run_needs /\ run_pc' \notin PausePcs \cup Unwinding) =>
        run_pc' = "await_message"

\* an invocation that asked no question ends the task completed or failed
C31_EndStep ==
    (run_pc \in PausePcs /\ ~run_needs /\ run_pc' \notin PausePcs \cup Unwinding) =>
        /\ run_pc' = "done"
        /\ db_tasks'[T].status \in {"completed", "failed"}

\* C31: in the pause loop, each message taken from the task's message queue
\* causes exactly one re-invocation of the engine with that message as input
\* and with the session id captured from the task's session_start event as
\* the resumption token; if that invocation emits ask_user_question the loop
\* waits for the next message, for any number of consecutive questions;
\* otherwise the task ends completed or failed by the same result/error rules
\* as the initial invocation.
C31_PauseLoop == [][C31_TakeStep /\ C31_InvokeStep /\ C31_AskStep /\ C31_EndStep]_vars

(***************************************************************************)
(* TaskManager._schedule_buffer_cleanup                                    *)
(*                                                                         *)
(* The finally block of _run_task (line 200) creates the cleanup unit, and *)
(* a cleanup unit that finds a subscriber creates its successor (line      *)
(* 286): one unit of the chain is asleep from the moment the finally block *)
(* has run until a unit of the chain has removed the task's structures.    *)
(* The retention window is not measured: it may expire at any later step.  *)
(***************************************************************************)
MaxExpiries == 2

\* lines 198-200 and 282: a cleanup unit is suspended in asyncio.sleep
CleanupSleeping ==
    /\ run_pc = "done"
    /\ T \notin running_tasks
    /\ ~cleanup.done

\* line 284
SubscriberAttached == Has(subscribers, T) /\ Len(subscribers[T]) > 0

\* mutant: the expiry removes the structures whether or not a subscriber is
\* attached
schedule_buffer_cleanup_IgnoresSubscribers ==
    /\ CleanupSleeping
    /\ cleanup.expiries < MaxExpiries
    /\ event_buffers' = Pop(event_buffers, T)
    /\ subscribers' = Pop(subscribers, T)
    /\ message_queues' = Pop(message_queues, T)
    /\ cleanup' = [done |-> TRUE, expiries |-> cleanup.expiries + 1]
    /\ UNCHANGED <<db_tasks, running_tasks, queues, run_pc, run_cancel, runLocals,
                   emitted, subVars, sendVars, cancelVars>>
    /\ UNCHANGED <<dbVars, refVars, instVars, limiterVars, msgVars, caller, hist,
                   access_log, status_call, bulk, stream_log>>

\* lines 282-292: the sleep returns; the rest of the unit runs without
\* suspension
schedule_buffer_cleanup ==
    /\ CleanupSleeping
    /\ cleanup.expiries < MaxExpiries
    /\ IF SubscriberAttached
       THEN \* lines 284-287: reschedule
            /\ cleanup' = [cleanup EXCEPT !.expiries = @ + 1]
            /\ UNCHANGED <<event_buffers, subscribers, message_queues>>
       ELSE \* lines 289-291
            /\ event_buffers' = Pop(event_buffers, T)
            /\ subscribers' = Pop(subscribers, T)
            /\ message_queues' = Pop(message_queues, T)
            /\ cleanup' = [done |-> TRUE, expiries |-> cleanup.expiries + 1]
    /\ UNCHANGED <<db_tasks, running_tasks, queues, run_pc, run_cancel, runLocals,
                   emitted, subVars, sendVars, cancelVars>>
    /\ UNCHANGED <<dbVars, refVars, instVars, limiterVars, msgVars, caller, hist,
                   access_log, status_call, bulk, stream_log>>

(***************************************************************************)
(* Specification of the retention cleanup: one task, its subscriber,       *)
(* cancellation, and the expiries of the retention window                  *)
(***************************************************************************)
MaxCleanupEvents == 2

CleanupEngineEvent ==
    /\ Len(emitted) < MaxCleanupEvents
    /\ \E ty \in EngineEventTypes : run_task_event(ty)

NextCleanup ==
    \/ create_task
    \/ run_task_begin
    \/ run_task_running
    \/ CleanupEngineEvent
    \/ run_task_session_id
    \/ run_task_failed
    \/ run_task_completed
    \/ run_task_stream_end
    \/ run_task_raise
    \/ run_task_exc_failed
    \/ run_task_cancelled
    \/ run_task_mark_cancelled
    \/ Subscribe
    \/ SubscribeNextBuffered
    \/ SubscribeQueueGet
    \/ SubscribeNextLive
    \/ cancel_task_call
    \/ cancel_task_return
    \/ schedule_buffer_cleanup

SpecCleanup == Init /\ [][NextCleanup]_vars

\* the step of an expiry of the retention window
Expiry == cleanup'.expiries # cleanup.expiries

C32_ExpiryStep ==
    Expiry =>
        /\ T \notin running_tasks
        /\ IF SubscriberAttached
           THEN /\ UNCHANGED <<event_buffers, subscribers, message_queues>>
                /\ ~cleanup'.done
                /\ CleanupSleeping'
           ELSE /\ ~Has(event_buffers', T)
                /\ ~Has(subscribers', T)
                /\ ~Has(message_queues', T)
                /\ cleanup'.done

\* C32: the retention cleanup scheduled when a task's execution unit exits
\* never removes the task's buffer, subscriber set or message queue while at
\* least one subscriber is attached at expiry of the window (it reschedules
\* itself instead); when no subscriber is attached at expiry it removes all
\* three.
C32_CleanupRespectsSubscribers == [][C32_ExpiryStep]_vars

\* C32 witness: a window expired while the subscriber was attached and the
\* structures were kept; the subscriber left, and the next expiry removed them
C32_Witness ==
    /\ cleanup = [done |-> TRUE, expiries |-> 2]
    /\ sub_pc["s1"] = "ended"
    /\ sub_recv["s1"] # << >>
    /\ ~Has(event_buffers, T)
    /\ ~Has(subscribers, T)
    /\ ~Has(message_queues, T)

(***************************************************************************)
(* Specification of the end of subscriptions: one task, two subscriptions  *)
(* that end on a terminal event or when their consumer goes away, one      *)
(* delete_task call and the retention cleanup                              *)
(***************************************************************************)
TwoSubs == {"s1", "s2"}

MaxSubsEvents == 2

InitSubs == TaskManagerInitWith(TwoSubs) /\ GatewayInit(DefaultChannel)

\* the consumer of the generator is cancelled or closes it: CancelledError at
\* line 318, or GeneratorExit at the yield of line 314 or 319, runs the
\* finally block of lines 327-330
subscribe_cancel(s) ==
    /\ sub_pc[s] \in {"buffered", "live", "wait"}
    /\ subscribe_exit(s)
    /\ UNCHANGED <<db_tasks, running_tasks, event_buffers, message_queues, queues,
                   run_pc, run_cancel, runLocals, emitted, sub_snap, sub_recv,
                   sendVars, cancelVars>>
    /\ UNCHANGED gwVars

SubsEngineEvent ==
    /\ Len(emitted) < MaxSubsEvents
    /\ \E ty \in DelEventTypes : run_task_event(ty)

NextSubs ==
    \/ create_task
    \/ run_task_begin
    \/ run_task_running
    \/ SubsEngineEvent
    \/ run_task_completed
    \/ run_task_stream_end
    \/ run_task_cancelled
    \/ run_task_mark_cancelled
    \/ \E s \in TwoSubs : subscribe(s)
    \/ \E s \in TwoSubs : subscribe_next_buffered(s)
    \/ \E s \in TwoSubs : subscribe_queue_get(s)
    \/ \E s \in TwoSubs : subscribe_next_live(s)
    \/ \E s \in TwoSubs : subscribe_cancel(s)
    \/ delete_task_call
    \/ delete_task_unit_done
    \/ delete_task_deleted
    \/ schedule_buffer_cleanup

SpecSubs == InitSubs /\ [][NextSubs]_vars

SubEnded == {"ended", "raised"}

C33_ExitStep ==
    \A s \in TwoSubs :
        (sub_pc[s] \notin SubEnded /\ sub_pc'[s] \in SubEnded) =>
            /\ sub_pc'[s] = "ended"
            /\ Has(subscribers', T) => ~InSeq(subscribers'[T], s)

\* C33: whenever a subscription ends, whether by seeing a terminal event or
\* by cancellation of the consumer, its queue is no longer in the task's
\* subscriber set and the exit itself raises no error; this holds also if
\* delete_task or the retention cleanup removed the subscriber set, or
\* another subscriber re-created it, while the subscription was active.
C33_ExitIsClean == [][C33_ExitStep]_vars

(***************************************************************************)
(* ChannelGateway.shutdown over the gateway's own references               *)
(***************************************************************************)
\* lines 110-119: the keys of _adapters are copied; with the channel among
\* them the coroutine suspends inside stop_channel (lines 199-205), with no
\* key it clears the rate limiter and the row cache and returns
gateway_shutdown(p) ==
    /\ caller[p].pc = "idle"
    /\ OpsBudget
    /\ IF Has(adapters, Ch)
       THEN /\ StopChannelFrom(p, "line114")
            /\ UNCHANGED <<windows, hist>>
       ELSE /\ windows' = << >>
            /\ channel_cache' = << >>
            /\ hist' = Append(hist, "shutdown")
            /\ UNCHANGED <<adapters, tasks, instVars, caller>>
    /\ UNCHANGED <<tmVars, sideVars, dbVars, now, rl_log, msgVars>>

\* lines 218-219 and 114-119: status inactive is stored, stop_channel returns
\* into the loop of shutdown, which has no further key and runs to its end
gateway_shutdown_stopped(p) ==
    /\ caller[p].pc = "stop_update"
    /\ caller[p].ret = "line114"
    /\ DbChannelUpdate("inactive", None)
    /\ hist' = Append(hist, "shutdown_stopped")
    /\ windows' = << >>
    /\ channel_cache' = << >>
    /\ caller' = [caller EXCEPT ![p] = IdleCaller]
    /\ UNCHANGED <<tmVars, sideVars, db_channel_sessions, db_channel_messages,
                   adapters, tasks, instVars, now, rl_log, msgVars>>

(***************************************************************************)
(* Specification of concurrent lifecycle calls: a running channel, two     *)
(* callers of start_channel, stop_channel and shutdown, adapter crashes    *)
(* and one message in flight, whose sender is on the channel's block list  *)
(* so that the handler ends after the access check                         *)
(***************************************************************************)
TwoCallers == {"api1", "api2"}

ConcChannel == ChannelRow("feishu", "blocklist", {}, {Sender}, DefaultRateLimit)

\* the state in which start_channel has returned for a channel stored as
\* row: instance 1 is registered, the row read at line 135 is cached and
\* status active is stored; P are the callers of lifecycle operations
InitRunning(row, P) ==
    /\ TaskManagerInit
    /\ db_channels = [c \in {Ch} |-> [row EXCEPT !.status = "active"]]
    /\ db_channel_sessions = {}
    /\ db_channel_messages = << >>
    /\ adapters = [c \in {Ch} |-> 1]
    /\ tasks = [c \in {Ch} |-> 1]
    /\ channel_cache = [c \in {Ch} |-> row]
    /\ windows = << >>
    /\ now = 0
    /\ inst_pc \in {<<"scheduled">>, <<"running">>}
    /\ inst_stopped = <<FALSE>>
    /\ caller = [p \in P |-> IdleCaller]
    /\ handler = [h \in Handlers |-> IdleHandler]
    /\ sent = << >>
    /\ uuid = 0
    /\ hist = << >>
    /\ done_log = << >>
    /\ rl_log = << >>
    /\ access_log = << >>
    /\ status_call = IdleStatusCall
    /\ stream_log = << >>
    /\ cleanup = NoCleanup
    /\ bulk = NoBulk

InitConc == InitRunning(ConcChannel, TwoCallers)

NextConc ==
    \/ \E p \in TwoCallers : start_channel(p)
    \/ \E p \in TwoCallers : stop_channel(p)
    \/ \E p \in TwoCallers : gateway_shutdown(p)
    \/ \E p \in TwoCallers : stop_channel_adapter_stopped(p)
    \/ \E p \in TwoCallers : stop_channel_task_done(p)
    \/ \E p \in TwoCallers : stop_channel_update(p)
    \/ \E p \in TwoCallers : gateway_shutdown_stopped(p)
    \/ \E p \in TwoCallers : start_channel_loaded(p)
    \/ \E p \in TwoCallers, is_valid \in BOOLEAN : start_channel_validated(p, is_valid)
    \/ \E p \in TwoCallers : start_channel_failed(p)
    \/ \E p \in TwoCallers : start_channel_active(p)
    \/ AdapterBegin
    \/ AdapterReturn
    \/ AdapterRaise
    \/ AdapterCleanup
    \/ LifeDeliver
    \/ handle_inbound_message(H1)
    \/ handle_inbound_loaded(H1)

SpecConc == InitConc /\ [][NextConc]_vars

\* C34: at every suspension point of the gateway, the set of channel ids in
\* _adapters equals the set of channel ids in _tasks, and every channel id in
\* _adapters also has an entry in _channel_cache, under any interleaving of
\* start_channel, stop_channel, adapter crashes, handle_inbound_message and
\* shutdown.
C34_RefsConsistent ==
    /\ DOMAIN adapters = DOMAIN tasks
    /\ DOMAIN adapters \subseteq DOMAIN channel_cache

\* the unit has run and left through its finally block
UnitExited == run_pc = "done" /\ T \notin running_tasks

\* C35: whenever a task's execution unit has exited (its entry has been
\* removed from _running_tasks), the task's persisted status is one of
\* completed, failed or cancelled: no task is left pending or running without
\* a live execution unit, including when an engine stream (initial or resumed)
\* ends without a result, error or ask_user_question event.
C35_ExitedIsTerminal ==
    (UnitExited /\ Has(db_tasks, T)) =>
        db_tasks[T].status \in {"completed", "failed", "cancelled"}

\* an adapter instance whose start() is running and which was not stopped
LiveInstances == {i \in DOMAIN inst_pc : inst_pc[i] = "running" /\ ~inst_stopped[i]}

\* the gateway refers to instance i
Referenced(i) == Has(adapters, Ch) /\ adapters[Ch] = i

\* the crash cleanup of instance i runs in this step
CrashCleanup(i) == inst_pc[i] = "crash_update" /\ inst_pc'[i] = "crashed"

C36_CleanupStep ==
    \A i \in DOMAIN inst_pc :
        CrashCleanup(i) =>
            \A j \in DOMAIN inst_pc :
                (j # i /\ Referenced(j)) =>
                    /\ Referenced(j)'
                    /\ Has(tasks', Ch) /\ tasks'[Ch] = j
                    /\ Has(channel_cache', Ch)

C36_LiveStep ==
    \A j \in DOMAIN inst_pc :
        (j \in LiveInstances /\ Referenced(j) /\ j \in LiveInstances') => Referenced(j)'

\* C36: the crash cleanup of one adapter instance never removes the
\* _adapters, _tasks or _channel_cache entries of a different adapter
\* instance started later for the same channel id (for example by a
\* start_channel that runs while a stop_channel of the older instance is
\* still awaiting adapter.stop()); no adapter whose start() is still running
\* becomes unreferenced by the gateway.
C36_CleanupOwnEntries == [][C36_CleanupStep /\ C36_LiveStep]_vars

(***************************************************************************)
(* Specification of the rate limiter shared by two channels: messages of   *)
(* one sender arrive on either channel and reach the rate-limit step       *)
(***************************************************************************)
SharedChannels == {"c1", "c2"}

MaxSharedLimit == 2

MaxSharedCalls == 4

\* every channel has the same limit N: the one of the stored row
InitShared ==
    /\ TaskManagerInit
    /\ \E n \in 1..MaxSharedLimit : GatewayInit(ChannelRow("feishu", "open", {}, {}, n))

SharedLimit == db_channels[Ch].rate_limit_per_minute

\* mutant: the window is kept per channel
WindowKey_PerChannel(channel_id, sender_id) == channel_id

\* line 318: the key handed to the limiter is msg.external_sender_id
WindowKey(channel_id, sender_id) == sender_id

\* lines 316-318 with is_allowed (lines 47-59): a message of the sender on
\* channel_id reaches the limiter
rate_limit_step(channel_id) ==
    /\ Len(rl_log) < MaxSharedCalls
    /\ LET key == WindowKey(channel_id, Sender)
       IN  /\ windows' = WindowsAfter(key, SharedLimit, now)
           /\ rl_log' = Append(rl_log, [t |-> now, channel |-> channel_id,
                                        allowed |-> is_allowed(key, SharedLimit, now)])
    /\ UNCHANGED <<tmVars, sideVars, dbVars, refVars, instVars, now, caller, msgVars, hist>>

SharedCall == \E c \in SharedChannels : rate_limit_step(c)

NextShared ==
    \/ SharedCall
    \/ Tick

SpecShared == InitShared /\ [][NextShared]_vars

\* calls admitted in the 60 seconds that end with call i
AdmittedInWindow(i) ==
    {j \in 1..i : rl_log[j].allowed /\ rl_log[j].t > rl_log[i].t - WindowSeconds}

\* C37: the rate-limiter window is keyed by external_sender_id alone and
\* shared by all channels: if every channel uses the same limit N, a given
\* sender id is admitted at most N times in any 60-second window in total
\* across all channels, so messages admitted on one channel reduce the same
\* sender id's remaining allowance on every other channel.
C37_SharedWindow ==
    /\ \A i \in 1..Len(rl_log) :
          /\ Cardinality(AdmittedInWindow(i)) <= SharedLimit
          /\ rl_log[i].allowed <=>
                Cardinality(AdmittedInWindow(i) \ {i}) < SharedLimit

\* C37 witness: with limit 1, a message admitted on one channel makes the
\* limiter reject the sender's next message on the other channel in the same
\* window, and admit one there once the window has passed
C37_Witness ==
    /\ Len(rl_log) = 3
    /\ SharedLimit = 1
    /\ rl_log[1].channel = "c1" /\ rl_log[1].allowed
    /\ rl_log[2].channel = "c2" /\ ~rl_log[2].allowed
    /\ rl_log[2].t < rl_log[1].t + WindowSeconds
    /\ rl_log[3].channel = "c2" /\ rl_log[3].allowed

(***************************************************************************)
(* Specification of shutdown: a running channel, shutdown and stop_channel *)
(* calls but no start_channel, adapter crashes and one message in flight   *)
(***************************************************************************)
NextShut ==
    \/ \E p \in TwoCallers : gateway_shutdown(p)
    \/ \E p \in TwoCallers : stop_channel(p)
    \/ \E p \in TwoCallers : stop_channel_adapter_stopped(p)
    \/ \E p \in TwoCallers : stop_channel_task_done(p)
    \/ \E p \in TwoCallers : stop_channel_update(p)
    \/ \E p \in TwoCallers : gateway_shutdown_stopped(p)
    \/ AdapterBegin
    \/ AdapterReturn
    \/ AdapterRaise
    \/ AdapterCleanup
    \/ LifeDeliver
    \/ handle_inbound_message(H1)
    \/ handle_inbound_loaded(H1)

SpecShut == InitConc /\ [][NextShut]_vars

\* a shutdown call has returned and no lifecycle call is in progress
ShutdownReturned ==
    /\ \E k \in 1..Len(hist) : hist[k] \in {"shutdown", "shutdown_stopped"}
    /\ \A p \in TwoCallers : caller[p].pc = "idle"

\* a shutdown call that found the channel running has returned
ShutdownStopped == \E k \in 1..Len(hist) : hist[k] = "shutdown_stopped"

\* the channels a startup would start (line 99)
active_channels == {c \in DOMAIN db_channels : db_channels[c].status = "active"}

\* C38: after shutdown returns (with no concurrent start_channel), the
\* gateway has no _adapters, _tasks, _channel_cache or rate-limiter entries
\* and every channel that was running is persisted as inactive, so a
\* subsequent startup, which starts only channels persisted as active, starts
\* none of the channels that were running before the shutdown.
C38_ShutdownLeavesNothing ==
    ShutdownReturned =>
        /\ adapters = << >>
        /\ tasks = << >>
        /\ channel_cache = << >>
        /\ windows = << >>
        /\ ShutdownStopped => db_channels[Ch].status = "inactive"
        /\ ShutdownStopped => active_channels = {}

(***************************************************************************)
(* The channel record is edited while the channel runs                     *)
(* (routers/channels.py, update_channel)                                   *)
(***************************************************************************)
MaxUpdInbound == 2

\* the running channel: open to every sender, one message per minute
UpdChannel == ChannelRow("feishu", "open", {}, {}, 1)

\* the fields of a ChannelUpdateRequest that the message handler reads
UpdFields == {"access_mode", "allowed_senders", "blocked_senders",
              "rate_limit_per_minute", "agent_id"}

\* requests: the sender is blocked, the limit is raised, another agent is bound
UpdateRequests ==
    {[access_mode |-> "blocklist", blocked_senders |-> {Sender}],
     [rate_limit_per_minute |-> 2],
     [agent_id |-> "agent2"]}

\* db.channels.update: the given fields replace those of the stored row
RowAfterUpdate(row, updates) ==
    [f \in DOMAIN row |-> IF f \in DOMAIN updates THEN updates[f] ELSE row[f]]

\* routers/channels.py lines 139-185: only the non-None fields of the request
\* are written to the store; the gateway is not told
update_channel(request) ==
    /\ db_channels[Ch].status # "none"
    /\ db_channels' = [db_channels EXCEPT ![Ch] = RowAfterUpdate(@, request)]
    /\ UNCHANGED <<tmVars, sideVars, db_channel_sessions, db_channel_messages, refVars,
                   instVars, limiterVars, caller, msgVars, hist>>

\* the stored record differs from the record the channel was started with
Updated == \E f \in UpdFields : db_channels[Ch][f] # UpdChannel[f]

InitUpd == InitRunning(UpdChannel, Callers)

UpdOnce == ~Updated /\ \E request \in UpdateRequests : update_channel(request)

UpdDeliver ==
    /\ Len(done_log) + Cardinality({g \in Handlers : handler[g].pc # "idle"})
           < MaxUpdInbound
    /\ \E i \in DOMAIN inst_pc : deliver(i, H1)

NextUpd ==
    \/ UpdOnce
    \/ AdapterBegin
    \/ AdapterRaise
    \/ AdapterCleanup
    \/ LifeStop
    \/ LifeAdapterStopped
    \/ LifeTaskDone
    \/ LifeStopUpdate
    \/ UpdDeliver
    \/ handle_inbound_message(H1)
    \/ handle_inbound_loaded(H1)
    \/ handle_inbound_notice(H1)
    \/ resolve_session_found(H1)
    \/ resolve_session_stored(H1)
    \/ MsgCreated
    \/ handle_inbound_logged(H1)
    \/ LifeEngineEvent
    \/ LifeStreamEnd
    \/ handle_inbound_sent(H1)
    \/ handle_inbound_out_logged(H1)
    \/ handle_inbound_count_read(H1)
    \/ handle_inbound_updated(H1)

SpecUpd == InitUpd /\ [][NextUpd]_vars

\* the access check of a record admits the sender and an agent is bound
Admits(row) == row.agent_id # None /\ check_access(row, Sender)

\* a handler that starts while the cache has an entry decides by that entry
C39_HandleStep ==
    \A h \in Handlers :
        (/\ handler[h].pc = "scheduled"
         /\ handler'[h] # handler[h]
         /\ Has(channel_cache, Ch))
        => LET row == channel_cache[Ch]
               ok == is_allowed(Sender, row.rate_limit_per_minute, now)
           IN  /\ (rl_log' # rl_log) <=> Admits(row)
               /\ ~Admits(row) =>
                      /\ handler'[h] = IdleHandler
                      /\ done_log'[Len(done_log')].outcome = "dropped"
               /\ Admits(row) =>
                      /\ rl_log'[Len(rl_log')].allowed = ok
                      /\ windows' = WindowsAfter(Sender, row.rate_limit_per_minute, now)
               /\ Admits(row) /\ ok =>
                      /\ handler'[h].pc = "find"
                      /\ handler'[h].channel = row
               /\ Admits(row) /\ ~ok => handler'[h].pc \in {"notice", "idle"}

\* an edit of the stored record leaves the cache, the windows and the handlers
C39_UpdateStep ==
    (\E f \in UpdFields : db_channels'[Ch][f] # db_channels[Ch][f])
    => UNCHANGED <<channel_cache, windows, handler>>

\* the entry leaves the cache in stop_channel or in the crash clean-up only
C39_RemovalStep ==
    (Has(channel_cache, Ch) /\ ~Has(channel_cache', Ch))
    => \/ \E p \in DOMAIN caller : caller'[p] # caller[p]
       \/ \E i \in DOMAIN inst_pc : CrashCleanup(i)

\* C39: while a channel has a _channel_cache entry, handle_inbound_message
\* takes access_mode, allowed_senders, blocked_senders, rate_limit_per_minute
\* and agent_id from that cached record: an update of the persisted channel
\* record (update_channel) does not change access-control or rate-limit
\* decisions for the channel until the cache entry is removed by stop_channel,
\* a crash or shutdown.
C39_CachedRecordDecides ==
    [][C39_HandleStep /\ C39_UpdateStep /\ C39_RemovalStep]_vars

\* the stored record blocks the sender, the cached one does not, and a message
\* has been admitted with the cached record
C39_Witness ==
    /\ Denied(db_channels[Ch])
    /\ Has(channel_cache, Ch)
    /\ ~Denied(channel_cache[Ch])
    /\ handler[H1].pc = "find"
    /\ handler[H1].channel = channel_cache[Ch]
    /\ handler[H1].channel # db_channels[Ch]

(***************************************************************************)
(* Order of the terminal event and of the persisted status                 *)
(***************************************************************************)
\* the engine's result or error event is emitted while the stored status is
\* still running; the update is the await that follows
C40_EventStep ==
    (/\ run_pc \in ConsumingEngine
     /\ emitted' # emitted
     /\ LastEmitted'.type \in {"result", "error"})
    => /\ db_tasks' = db_tasks
       /\ db_tasks[T].status = "running"
       /\ event_buffers'[T][Len(event_buffers'[T])] = LastEmitted'
       /\ \A i \in 1..Len(subscribers[T]) :
              LET q == subscribers[T][i]
              IN  queues'[q] = Append(queues[q], LastEmitted')

\* the except handlers: when the event is emitted the status is already stored
C40_HandlerStep ==
    /\ (run_pc = "await_cancelled" /\ emitted' # emitted)
           => /\ LastEmitted'.type = "status" /\ LastEmitted'.status = "cancelled"
              /\ db_tasks'[T].status = "cancelled"
    /\ (run_pc = "await_exc_failed" /\ emitted' # emitted)
           => /\ LastEmitted'.type = "error"
              /\ db_tasks'[T].status = "failed"

\* no observer sees the event of an except handler with status running
C40_HandlerEventAfterStatus ==
    \A i \in 1..Len(emitted) :
        emitted[i].type = "status" /\ emitted[i].status = "cancelled"
            => db_tasks[T].status # "running"

\* C40: on the result and error event paths a task's execution unit places the
\* terminal event in the buffer and subscriber queues before it changes the
\* persisted status from running, so a state is reachable in which a
\* subscriber has received result or error while the persisted status is still
\* running; on the cancellation and exception paths the persisted status is
\* changed to cancelled or failed before the corresponding event is emitted.
C40_EventBeforeStatus ==
    [][C40_EventStep /\ C40_HandlerStep]_vars /\ []C40_HandlerEventAfterStatus

\* a subscriber has received result or error and the stored status is running
C40_Witness ==
    /\ Has(db_tasks, T)
    /\ db_tasks[T].status = "running"
    /\ \E s \in Subs :
           /\ sub_recv[s] # << >>
           /\ sub_recv[s][Len(sub_recv[s])].type \in {"result", "error"}

=============================================================================
